---- MODULE Spec2Model ----
(***************************************************************************)
(* Verification model of mitmproxy-rs: the layer engine's pause queue,     *)
(* the SSE framing parser, the certificate authority's leaf cache, the     *)
(* flow model with its store and control-plane handlers, and the HTTP/1    *)
(* client's response framing.  Each subsystem has its own specification    *)
(* (SpecLayer, SpecSse, SpecCerts, SpecContent, SpecH1, and Spec for the   *)
(* flow store); the variables of the other subsystems stay at their        *)
(* initial values.                                                         *)
(***************************************************************************)
EXTENDS Integers, Sequences, FiniteSets, TLC

VARIABLES
    \* proxy/layer.rs BaseLayer + proxy/layers/tcp.rs TcpLayer
    paused,              \* BaseLayer.paused: "none" or the blocking command's name
    paused_event_queue,  \* BaseLayer.paused_event_queue
    commands,            \* commands the TCP layer has emitted, in order
    arrived,             \* history: every event passed to handle_event, in order
    processed,           \* history: events that reached the layer's match arms
    resumed              \* history: the events handed back by resume(), in order

layerVars == <<paused, paused_event_queue, commands, arrived, processed, resumed>>

VARIABLES
    \* proxy/server.rs ProxyServer.flows and the api/handlers.rs handlers
    flows,       \* the flow store: a function from flow id to HTTPFlow
    handlers,    \* per handler task: where it is between get_flow and update_flow
    nextId,      \* number of flow ids minted so far (Uuid::new_v4 is fresh)
    removed,     \* history: ids removed from the store
    snapshot,    \* history: per id, the stored flow before its first backed-up edit
    last,        \* history: what the handler step just taken did
    calls,       \* number of control-plane requests served so far
    killed       \* history: ids under which kill_flow has stored its flow

flowVars ==
    <<flows, handlers, nextId, removed, snapshot, last, calls, killed>>

VARIABLES
    \* flow.rs HTTPRequest / HTTPResponse under set_content
    message,     \* the request or response whose content is being set
    body_set     \* history: the body of the latest set_content call, if any

contentVars == <<message, body_set>>

VARIABLES
    \* sse.rs SseParser and the stream it is fed
    sse_stream,  \* the whole byte stream S
    sse_pos,     \* number of bytes of S handed to parse_chunk so far
    parser,      \* SseParser: line_buffer, current_event, last_event_id
    sse_events,  \* every event parse_chunk and flush have returned, in order
    sse_flushed  \* TRUE once flush has been called

sseVars == <<sse_stream, sse_pos, parser, sse_events, sse_flushed>>

VARIABLES
    \* certs.rs CertificateAuthority and the tasks calling get_cert_for_host
    cert_cache,  \* the cache: a function from hostname to leaf certificate
    cert_tasks,  \* per task: where it is inside get_cert_for_host
    generated,   \* number of leaf certificates generated so far
    clears,      \* number of clear_cache calls so far
    returned     \* history: the (hostname, leaf, clears) of every returned call

certVars == <<cert_cache, cert_tasks, generated, clears, returned>>

VARIABLES
    \* proxy/layers/http.rs Http1Client and the upstream connection feeding it
    h1,          \* the Http1Client: its fields, receive_buffer.buf as buf
    h1_commands, \* every command handle_event and send_event returned, in order
    h1_err,      \* TRUE iff the latest call returned Err
    h1_sent,     \* history: what the driver has handed to the client so far
    h1_wire,     \* the bytes of the response the origin server sends
    h1_pos,      \* number of bytes of h1_wire delivered in DataReceived events
    h1_body      \* the message body the response on the wire carries

h1Vars == <<h1, h1_commands, h1_err, h1_sent, h1_wire, h1_pos, h1_body>>

\* HTTP/1 request head: the bytes a client sent, the request parsed from
\* them, the head assembled from that request, and the request parsed back
VARIABLES rt_wire, rt_request, rt_assembled, rt_reparsed
rtVars == <<rt_wire, rt_request, rt_assembled, rt_reparsed>>

\* NextLayer: its child, its buffer, and the history of the events it was
\* given, of the events its child was given, and of the commands it returned
VARIABLES child_layer, buffered_events, nl_arrived, nl_delivered,
          nl_replayed, nl_commands
nextLayerVars ==
    <<child_layer, buffered_events, nl_arrived, nl_delivered, nl_replayed,
      nl_commands>>

\* a tunnel layer (TunnelLayer, ClientTlsLayer or ServerTlsLayer): its
\* fields, and the history of the events it was given, of the events it
\* queued, of the events its child was given, of the commands it returned,
\* whether its handshake has failed, and whether it has swallowed an
\* OpenConnection of its child
VARIABLES tunnel, tn_arrived, tn_held, tn_child_events, tn_commands, tn_failed,
          tn_swallowed
tunnelVars ==
    <<tunnel, tn_arrived, tn_held, tn_child_events, tn_commands, tn_failed,
      tn_swallowed>>

\* the root CA: the files of each certificate directory, the CA of the
\* running process, the number of CAs generated so far, and for each
\* directory the first CA that was generated and saved there
VARIABLES ca_files, ca, ca_generated, ca_persisted
caVars == <<ca_files, ca, ca_generated, ca_persisted>>

\* the connection driver: where handle_connection is, the commands still in
\* the root layer's generator, the commands taken from it, and the events
\* the driver has given to the root layer
VARIABLES dr_pc, dr_generator, dr_taken, dr_delivered
driverVars == <<dr_pc, dr_generator, dr_taken, dr_delivered>>

VARIABLES
    \* proxy/layers/http.rs Http1Server and the client connection feeding it
    h1s,          \* the Http1Server: its fields, receive_buffer.buf as buf
    h1s_commands, \* every command the server's methods returned, in order
    h1s_err,      \* TRUE iff the latest call returned Err
    h1s_heads,    \* history: per request head read_headers extracted, its result
    h1s_resets,   \* history: the server right after each reset for the next request
    h1s_pipes,    \* history: the buffer and the commands of each switch to Passthrough
    h1s_last,     \* history: the latest call and the commands it returned
    h1s_data,     \* number of ResponseData events handed to send_event so far
    h1s_wire,     \* the bytes the client sends
    h1s_pos       \* number of bytes of h1s_wire delivered in DataReceived events

h1sVars ==
    <<h1s, h1s_commands, h1s_err, h1s_heads, h1s_resets, h1s_pipes, h1s_last,
      h1s_data, h1s_wire, h1s_pos>>

VARIABLES
    \* proxy/layers/http.rs Http1Client::calculate_expected_response_body_size
    \* and Http1Server::calculate_expected_body_size
    bs_request,  \* the request the response answers
    bs_response, \* the response whose body size is asked for
    bs_size,     \* the size returned for the response, "pending" before the call
    bs_request_size \* the size the server returned for the request, or "pending"

bsVars == <<bs_request, bs_response, bs_size, bs_request_size>>

VARIABLES
    \* proxy/layers/http.rs HttpLayer and its HttpStream entries
    hl_streams,         \* HttpLayer.streams: a function from key to HttpStream
    hl_next_stream_id,  \* HttpLayer.next_stream_id
    hl_last,            \* history: the event just routed, the key of the entry
                        \* that handled it, the key make_stream used, the
                        \* commands returned
    hl_count            \* number of events routed so far

hlVars == <<hl_streams, hl_next_stream_id, hl_last, hl_count>>

VARIABLES
    \* proxy/layers/http.rs Http2Connection and its BufferedH2Connection
    h2_streams,         \* Http2Connection.streams: stream id -> Http2StreamState
    h2_stream_buffers,  \* BufferedH2Connection.stream_buffers: id -> queue
    h2_last,            \* history: the call just made, the streams tracked
                        \* and the frames queued for its stream before it,
                        \* the commands it returned
    h2_count            \* number of calls made so far

h2Vars == <<h2_streams, h2_stream_buffers, h2_last, h2_count>>

vars ==
    <<layerVars, flowVars, contentVars, sseVars, certVars, h1Vars, rtVars,
      nextLayerVars, tunnelVars, caVars, driverVars, h1sVars, bsVars, hlVars,
      h2Vars>>

\* what a step of one part of the program leaves alone: the other parts
notLayerVars ==
    <<flowVars, contentVars, sseVars, certVars, h1Vars, rtVars,
      nextLayerVars, tunnelVars, caVars, driverVars, h1sVars, bsVars, hlVars,
      h2Vars>>
notFlowVars ==
    <<layerVars, contentVars, sseVars, certVars, h1Vars, rtVars,
      nextLayerVars, tunnelVars, caVars, driverVars, h1sVars, bsVars, hlVars,
      h2Vars>>
notContentVars ==
    <<layerVars, flowVars, sseVars, certVars, h1Vars, rtVars, nextLayerVars,
      tunnelVars, caVars, driverVars, h1sVars, bsVars, hlVars, h2Vars>>
notSseVars ==
    <<layerVars, flowVars, contentVars, certVars, h1Vars, rtVars,
      nextLayerVars, tunnelVars, caVars, driverVars, h1sVars, bsVars, hlVars,
      h2Vars>>
notCertVars ==
    <<layerVars, flowVars, contentVars, sseVars, h1Vars, rtVars,
      nextLayerVars, tunnelVars, caVars, driverVars, h1sVars, bsVars, hlVars,
      h2Vars>>
notH1Vars ==
    <<layerVars, flowVars, contentVars, sseVars, certVars, rtVars,
      nextLayerVars, tunnelVars, caVars, driverVars, h1sVars, bsVars, hlVars,
      h2Vars>>
notRtVars ==
    <<layerVars, flowVars, contentVars, sseVars, certVars, h1Vars,
      nextLayerVars, tunnelVars, caVars, driverVars, h1sVars, bsVars, hlVars,
      h2Vars>>
notNextLayerVars ==
    <<layerVars, flowVars, contentVars, sseVars, certVars, h1Vars, rtVars,
      tunnelVars, caVars, driverVars, h1sVars, bsVars, hlVars, h2Vars>>
notTunnelVars ==
    <<layerVars, flowVars, contentVars, sseVars, certVars, h1Vars, rtVars,
      nextLayerVars, caVars, driverVars, h1sVars, bsVars, hlVars, h2Vars>>
notCaVars ==
    <<layerVars, flowVars, contentVars, sseVars, certVars, h1Vars, rtVars,
      nextLayerVars, tunnelVars, driverVars, h1sVars, bsVars, hlVars, h2Vars>>
notDriverVars ==
    <<layerVars, flowVars, contentVars, sseVars, certVars, h1Vars, rtVars,
      nextLayerVars, tunnelVars, caVars, h1sVars, bsVars, hlVars, h2Vars>>
notH1sVars ==
    <<layerVars, flowVars, contentVars, sseVars, certVars, h1Vars, rtVars,
      nextLayerVars, tunnelVars, caVars, driverVars, bsVars, hlVars, h2Vars>>
notBsVars ==
    <<layerVars, flowVars, contentVars, sseVars, certVars, h1Vars, rtVars,
      nextLayerVars, tunnelVars, caVars, driverVars, h1sVars, hlVars, h2Vars>>
notHlVars ==
    <<layerVars, flowVars, contentVars, sseVars, certVars, h1Vars, rtVars,
      nextLayerVars, tunnelVars, caVars, driverVars, h1sVars, bsVars, h2Vars>>
notH2Vars ==
    <<layerVars, flowVars, contentVars, sseVars, certVars, h1Vars, rtVars,
      nextLayerVars, tunnelVars, caVars, driverVars, h1sVars, bsVars, hlVars>>

None == "none"

\* Option<T>: the empty sequence is None, a one-element sequence is Some(x)
NoneOpt == <<>>
Some(x) == <<x>>
IsSome(o) == o # <<>>
Unwrap(o) == o[1]

\* ------------------------------------------------------------------------
\* Generic sequence helpers
\* ------------------------------------------------------------------------

\* s[from..to], empty when from > to
Slice(s, from, to) == IF from > to THEN <<>> ELSE SubSeq(s, from, to)

\* the part of s from position from on
From(s, from) == Slice(s, from, Len(s))

\* TRUE iff p is a prefix of s
IsPrefix(p, s) == Len(p) <= Len(s) /\ SubSeq(s, 1, Len(p)) = p

\* ------------------------------------------------------------------------
\* Layer engine: BaseLayer pause/resume and the TCP layer
\* ------------------------------------------------------------------------

MaxEvents == 4

\* Context.server is Some in the modelled connection (Context::with_server)
HasServer == TRUE

EventNames == {"Start", "DataReceived", "ConnectionClosed", "CommandCompleted"}

\* the events the driver can deliver; seq is the arrival number (history tag)
Event(name, conn, n) == [name |-> name, connection |-> conn, seq |-> n]

ArrivingEvents(n) ==
    { Event(nm, c, n) : nm \in EventNames, c \in {"client", "server"} }

IsPaused(p) == p # None

\* BaseLayer::queue_event: pushes only while paused, otherwise drops the event
QueueEvent(q, p, e) == IF IsPaused(p) THEN Append(q, e) ELSE q

\* BaseLayer::resume: takes the pause and the whole queue; None when not paused
BaseResume(p, q) ==
    IF IsPaused(p) THEN [some |-> TRUE, events |-> q]
    ELSE [some |-> FALSE, events |-> <<>>]

\* TcpLayer::handle_data_received: every DataReceived becomes a SendData to
\* context.server (when there is one), whichever connection it came from
HandleDataReceived(e) ==
    IF HasServer
    THEN << [name |-> "SendData", connection |-> "server", seq |-> e.seq] >>
    ELSE <<>>

\* TcpLayer::handle_event
HandleEvent(e) ==
    /\ Len(arrived) < MaxEvents
    /\ e \in ArrivingEvents(Len(arrived) + 1)
    /\ arrived' = Append(arrived, e)
    /\ IF IsPaused(paused)
       THEN /\ paused_event_queue' = QueueEvent(paused_event_queue, paused, e)
            /\ UNCHANGED <<paused, commands, processed, resumed, notLayerVars>>
       ELSE /\ processed' = Append(processed, e)
            /\ commands' = IF e.name = "DataReceived"
                           THEN commands \o HandleDataReceived(e)
                           ELSE commands
            /\ UNCHANGED <<paused, paused_event_queue, resumed, notLayerVars>>

\* BaseLayer::pause_with_command
PauseWithCommand(cmd) ==
    /\ paused' = cmd
    /\ UNCHANGED <<paused_event_queue, commands, arrived, processed, resumed,
                   notLayerVars>>

\* BaseLayer::resume, called by the owner of the layer
Resume ==
    LET r == BaseResume(paused, paused_event_queue) IN
    /\ IsPaused(paused)
    /\ r.some
    /\ paused' = None
    /\ paused_event_queue' = <<>>
    /\ resumed' = resumed \o r.events
    /\ UNCHANGED <<commands, arrived, processed, notLayerVars>>

InitLayerVars ==
    /\ paused = None
    /\ paused_event_queue = <<>>
    /\ commands = <<>>
    /\ arrived = <<>>
    /\ processed = <<>>
    /\ resumed = <<>>

NextLayer ==
    \/ \E e \in ArrivingEvents(Len(arrived) + 1) : HandleEvent(e)
    \/ PauseWithCommand("OpenConnection")
    \/ Resume

ProcessedData ==
    LET IsData(e) == e.name = "DataReceived" IN SelectSeq(processed, IsData)

OtherSide(conn) == IF conn = "client" THEN "server" ELSE "client"

\* C18: the TCP layer forwards bytes between the two sides: the SendData
\* commands it has emitted are, in order, one for each DataReceived it has
\* processed, each with that event's bytes and addressed to the connection
\* opposite to the one the bytes came from.
C18_ForwardsToOtherSide ==
    /\ Len(commands) = Len(ProcessedData)
    /\ \A i \in 1..Len(commands) :
           /\ commands[i].name = "SendData"
           /\ commands[i].seq = ProcessedData[i].seq
           /\ commands[i].connection = OtherSide(ProcessedData[i].connection)

\* ------------------------------------------------------------------------
\* Flow model (flow.rs), flow store (proxy/server.rs) and the control-plane
\* handlers (api/handlers.rs)
\* ------------------------------------------------------------------------

MaxCalls == 4

\* every id is minted by one request, so there are at most MaxCalls of them
Ids == 1..MaxCalls

\* the ids a request can name: the minted ones and one that was never minted
RequestIds == 1..(nextId + 1)

HandlerTasks == {"h1", "h2"}

Bodies == { <<>>, <<"a">> }

\* SHA-256 of a body, as an injective function of its bytes
Sha256(B) == [sha256 |-> B]

\* HTTPRequest::new / HTTPResponse::new: no content, no length, no hash.
\* method, scheme, host, port and the headers are plain fields that
\* update_flow assigns exactly as it assigns path; path stands for them.
NewRequest(path) ==
    [path |-> path, content |-> NoneOpt, content_length |-> NoneOpt,
     content_hash |-> NoneOpt]

NewResponse(code) ==
    [status_code |-> code, content |-> NoneOpt, content_length |-> NoneOpt,
     content_hash |-> NoneOpt]

\* HTTPRequest::set_content and HTTPResponse::set_content (same body)
SetContent(m, B) ==
    [m EXCEPT !.content_length = Some(Len(B)),
              !.content_hash = IF B # <<>> THEN Some(Sha256(B)) ELSE @,
              !.content = Some(B)]

\* HTTPFlow::new over Flow::new
NewHTTPFlow(id, request) ==
    [id |-> id, intercepted |-> FALSE, is_replay |-> FALSE, modified |-> FALSE,
     marked |-> "", error |-> NoneOpt, request |-> request, response |-> NoneOpt]

\* Flow::set_error via Flow::kill
Kill(f) == [f EXCEPT !.error = Some("Connection killed.")]

\* Flow::killable
KillableIgnoresReplay(f) == ~IsSome(f.error)
Killable(f) == ~f.is_replay /\ ~IsSome(f.error)

\* Flow::resume
FlowResume(f) == [f EXCEPT !.intercepted = FALSE]

\* HTTPFlow::backup
Backup(f) == [f EXCEPT !.modified = TRUE]

\* HTTPFlow::revert
Revert(f) == [f EXCEPT !.modified = FALSE]

\* HTTPFlow::copy
Copy(f, newId) == [f EXCEPT !.id = newId, !.is_replay = TRUE]

\* ProxyServer::get_flow
GetFlow(store, id) == IF id \in DOMAIN store THEN Some(store[id]) ELSE NoneOpt

\* ProxyServer::add_flow
AddFlowToStore(store, f) ==
    [i \in DOMAIN store \cup {f.id} |-> IF i = f.id THEN f ELSE store[i]]

\* ProxyServer::update_flow
UpdateFlowUpsert(store, f) ==
    [ok |-> f.id \in DOMAIN store, flows |-> AddFlowToStore(store, f)]
UpdateFlow(store, f) ==
    IF f.id \in DOMAIN store
    THEN [ok |-> TRUE, flows |-> [store EXCEPT ![f.id] = f]]
    ELSE [ok |-> FALSE, flows |-> store]

\* ProxyServer::remove_flow
RemoveFlow(store, id) == [i \in DOMAIN store \ {id} |-> store[i]]

\* the body of update_flow between flow.backup() and proxy.update_flow
ApplyPatch(f, patch) ==
    LET f1 == IF IsSome(patch.path)
              THEN [f EXCEPT !.request.path = Unwrap(patch.path)] ELSE f
        f2 == IF IsSome(patch.content)
              THEN [f1 EXCEPT !.request = SetContent(@, Unwrap(patch.content))]
              ELSE f1
        f3 == IF IsSome(patch.resp_content) /\ IsSome(f2.response)
              THEN [f2 EXCEPT !.response =
                        Some(SetContent(Unwrap(@), Unwrap(patch.resp_content)))]
              ELSE f2
    IN  IF IsSome(patch.marked) THEN [f3 EXCEPT !.marked = Unwrap(patch.marked)]
        ELSE f3

\* UpdateFlowRequest bodies the control plane sends: each sets one field
NoPatch ==
    [path |-> NoneOpt, content |-> NoneOpt, resp_content |-> NoneOpt,
     marked |-> NoneOpt]

Patches ==
    { [NoPatch EXCEPT !.path = Some("/x")],
      [NoPatch EXCEPT !.content = Some(<<"a">>)],
      [NoPatch EXCEPT !.resp_content = Some(<<"a">>)],
      [NoPatch EXCEPT !.marked = Some("m")] }

Idle == [pc |-> "idle", op |-> None, flow |-> NoneOpt]

\* a handler that holds its local copy and is about to call proxy.update_flow
Holding(op, f) == [pc |-> "update", op |-> op, flow |-> Some(f)]

\* what a handler step did: the handler, the flow id and the status it returned
\* (None while the handler has yet to call proxy.update_flow)
Step(op, id, result) == [op |-> op, id |-> id, result |-> result]

NoStep == Step(None, 0, None)

\* a handler task returns without touching the store
Return(h, op, id, result) ==
    /\ calls < MaxCalls
    /\ calls' = calls + 1
    /\ handlers' = [handlers EXCEPT ![h] = Idle]
    /\ last' = Step(op, id, result)
    /\ UNCHANGED <<flows, nextId, removed, snapshot, killed, notFlowVars>>

\* a handler task has read the flow and mutated its local copy
Hold(h, op, f) ==
    /\ calls < MaxCalls
    /\ calls' = calls + 1
    /\ handlers' = [handlers EXCEPT ![h] = Holding(op, f)]
    /\ last' = Step(op, f.id, None)
    /\ UNCHANGED <<flows, nextId, removed, snapshot, killed, notFlowVars>>

\* the proxy stores a new flow (ProxyServer::add_flow with HTTPFlow::new)
AddFlow(intercepted, withResponse) ==
    /\ calls < MaxCalls
    /\ calls' = calls + 1
    /\ LET id == nextId + 1
           f0 == NewHTTPFlow(id, NewRequest("/"))
           f == [f0 EXCEPT !.intercepted = intercepted,
                           !.response = IF withResponse
                                        THEN Some(NewResponse("200"))
                                        ELSE NoneOpt]
       IN  flows' = AddFlowToStore(flows, f)
    /\ nextId' = nextId + 1
    /\ last' = Step("add_flow", nextId + 1, "ok")
    /\ UNCHANGED <<handlers, removed, snapshot, killed, notFlowVars>>

\* update_flow, up to its call of proxy.update_flow
UpdateFlowBegin(h, id, patch) ==
    /\ handlers[h].pc = "idle"
    /\ LET got == GetFlow(flows, id) IN
       IF IsSome(got)
       THEN Hold(h, "update_flow", ApplyPatch(Backup(Unwrap(got)), patch))
       ELSE Return(h, "update_flow", id, "not_found")

\* set_flow_content, up to its call of proxy.update_flow
SetFlowContentBegin(h, id, which, body) ==
    /\ handlers[h].pc = "idle"
    /\ LET got == GetFlow(flows, id) IN
       IF IsSome(got)
       THEN LET f == Backup(Unwrap(got)) IN
            CASE which = "request" ->
                   Hold(h, "set_flow_content",
                        [f EXCEPT !.request = SetContent(@, body)])
              [] which = "response" ->
                   Hold(h, "set_flow_content",
                        IF IsSome(f.response)
                        THEN [f EXCEPT !.response =
                                  Some(SetContent(Unwrap(@), body))]
                        ELSE f)
              [] OTHER -> Return(h, "set_flow_content", id, "bad_request")
       ELSE Return(h, "set_flow_content", id, "not_found")

\* resume_flow, up to its call of proxy.update_flow
ResumeFlowBegin(h, id) ==
    /\ handlers[h].pc = "idle"
    /\ LET got == GetFlow(flows, id) IN
       IF IsSome(got)
       THEN Hold(h, "resume_flow", FlowResume(Unwrap(got)))
       ELSE Return(h, "resume_flow", id, "not_found")

\* kill_flow, up to its call of proxy.update_flow
KillFlowBegin(h, id) ==
    /\ handlers[h].pc = "idle"
    /\ LET got == GetFlow(flows, id) IN
       IF IsSome(got)
       THEN IF Killable(Unwrap(got))
            THEN Hold(h, "kill_flow", Kill(Unwrap(got)))
            ELSE Return(h, "kill_flow", id, "ok")
       ELSE Return(h, "kill_flow", id, "not_found")

\* revert_flow, up to its call of proxy.update_flow
RevertFlowBegin(h, id) ==
    /\ handlers[h].pc = "idle"
    /\ LET got == GetFlow(flows, id) IN
       IF IsSome(got)
       THEN IF Unwrap(got).modified
            THEN Hold(h, "revert_flow", Revert(Unwrap(got)))
            ELSE Return(h, "revert_flow", id, "ok")
       ELSE Return(h, "revert_flow", id, "not_found")

\* the proxy.update_flow(flow).await that ends update_flow, set_flow_content,
\* resume_flow, kill_flow and revert_flow; only update_flow looks at the result
HandlerUpdate(h) ==
    /\ handlers[h].pc = "update"
    /\ LET f == Unwrap(handlers[h].flow)
           op == handlers[h].op
           r == UpdateFlow(flows, f)
       IN  /\ flows' = r.flows
           /\ handlers' = [handlers EXCEPT ![h] = Idle]
           /\ last' = [op |-> op, id |-> f.id, updated |-> r.ok,
                        result |-> IF op = "update_flow" /\ ~r.ok
                                   THEN "not_found" ELSE "ok"]
           /\ snapshot' =
                  IF r.ok /\ f.modified /\ ~flows[f.id].modified
                  THEN [snapshot EXCEPT ![f.id] = Some(flows[f.id])]
                  ELSE snapshot
    /\ killed' = IF handlers[h].op = "kill_flow"
                     /\ Unwrap(handlers[h].flow).id \in DOMAIN flows
                  THEN killed \cup {Unwrap(handlers[h].flow).id}
                  ELSE killed
    /\ UNCHANGED <<nextId, removed, calls, notFlowVars>>

\* delete_flow
DeleteFlow(h, id) ==
    /\ handlers[h].pc = "idle"
    /\ calls < MaxCalls
    /\ calls' = calls + 1
    /\ flows' = RemoveFlow(flows, id)
    /\ removed' = IF id \in DOMAIN flows THEN removed \cup {id} ELSE removed
    /\ last' = Step("delete_flow", id,
                   IF id \in DOMAIN flows THEN "ok" ELSE "not_found")
    /\ UNCHANGED <<handlers, nextId, snapshot, killed, notFlowVars>>

\* clear_all (and load_flows): proxy.clear_flows()
ClearAll ==
    /\ calls < MaxCalls
    /\ calls' = calls + 1
    /\ flows' = [i \in {} |-> NoStep]
    /\ removed' = removed \cup DOMAIN flows
    /\ last' = Step("clear_all", 0, "ok")
    /\ UNCHANGED <<handlers, nextId, snapshot, killed, notFlowVars>>

\* duplicate_flow: copies the flow and returns the copy's id
DuplicateFlow(h, id) ==
    /\ handlers[h].pc = "idle"
    /\ LET got == GetFlow(flows, id) IN
       IF IsSome(got)
       THEN /\ calls < MaxCalls
            /\ calls' = calls + 1
            /\ nextId' = nextId + 1
            /\ last' = [op |-> "duplicate_flow", id |-> id, result |-> "ok",
                        source |-> Unwrap(got),
                        new_flow |-> Copy(Unwrap(got), nextId + 1)]
            /\ UNCHANGED <<flows, handlers, removed, snapshot, killed, notFlowVars>>
       ELSE Return(h, "duplicate_flow", id, "not_found")

\* replay_flow: looks the flow up and does nothing with it
ReplayFlow(h, id) ==
    /\ handlers[h].pc = "idle"
    /\ Return(h, "replay_flow", id,
              IF IsSome(GetFlow(flows, id)) THEN "ok" ELSE "not_found")

InitFlowVars ==
    /\ flows = [i \in {} |-> NoStep]
    /\ handlers = [h \in HandlerTasks |-> Idle]
    /\ calls = 0
    /\ nextId = 0
    /\ removed = {}
    /\ snapshot = [i \in Ids |-> NoneOpt]
    /\ last = NoStep
    /\ killed = {}

NextFlow ==
    \/ \E i \in BOOLEAN, r \in BOOLEAN : AddFlow(i, r)
    \/ \E h \in HandlerTasks, id \in RequestIds, patch \in Patches :
           UpdateFlowBegin(h, id, patch)
    \/ \E h \in HandlerTasks, id \in RequestIds, b \in Bodies,
          m \in {"request", "response", "other"} :
           SetFlowContentBegin(h, id, m, b)
    \/ \E h \in HandlerTasks, id \in RequestIds : ResumeFlowBegin(h, id)
    \/ \E h \in HandlerTasks, id \in RequestIds : KillFlowBegin(h, id)
    \/ \E h \in HandlerTasks, id \in RequestIds : RevertFlowBegin(h, id)
    \/ \E h \in HandlerTasks : HandlerUpdate(h)
    \/ \E h \in HandlerTasks, id \in RequestIds : DeleteFlow(h, id)
    \/ ClearAll
    \/ \E h \in HandlerTasks, id \in RequestIds : DuplicateFlow(h, id)
    \/ \E h \in HandlerTasks, id \in RequestIds : ReplayFlow(h, id)

\* every flow value the program holds: the stored flows, the handlers' local
\* copies and the copy duplicate_flow has just made
AllFlows ==
    { flows[i] : i \in DOMAIN flows }
    \cup { Unwrap(handlers[h].flow) : h \in { t \in HandlerTasks : IsSome(handlers[t].flow) } }
    \cup (IF last.op = "duplicate_flow" /\ last.result = "ok"
          THEN {last.new_flow} ELSE {})

\* C6: revert restores the snapshot taken by the first backup: right after a
\* revert_flow has written the flow back, its request, response and metadata
\* equal what the store held before the first backed-up edit.
C6_RevertRestoresSnapshot ==
    (/\ last.op = "revert_flow"
     /\ last.result = "ok"
     /\ last.id \in DOMAIN flows
     /\ IsSome(snapshot[last.id]))
    => LET f == flows[last.id]
           s == Unwrap(snapshot[last.id])
       IN  f.request = s.request /\ f.response = s.response /\ f.marked = s.marked

\* C7: after kill, the flow's error is present and its intercepted flag is
\* false (checked on the flow kill_flow has just killed).
C7_KillClearsIntercepted ==
    \A h \in HandlerTasks :
        handlers[h].op = "kill_flow"
        => LET f == Unwrap(handlers[h].flow)
           IN  IsSome(f.error) /\ ~f.intercepted

\* C8: for every flow the program holds, killable is true exactly when the
\* flow is not a replay and has no error.
C8_KillableIff ==
    \A f \in AllFlows : Killable(f) <=> (f.is_replay = FALSE /\ f.error = NoneOpt)

C8_Witness ==
    /\ \E f \in AllFlows : f.is_replay /\ IsSome(f.error)
    /\ \E f \in AllFlows : ~f.is_replay /\ IsSome(f.error)
    /\ \E f \in AllFlows : Killable(f)

\* C9: right after duplicate_flow returns an id, the store holds a flow under
\* that id which is a replay, has another id than the source and the source's
\* request body hash, and the source flow is unchanged.
C9_DuplicateIsStored ==
    (last.op = "duplicate_flow" /\ last.result = "ok")
    => /\ last.new_flow.id \in DOMAIN flows
       /\ flows[last.new_flow.id].is_replay
       /\ last.new_flow.id # last.id
       /\ flows[last.new_flow.id].request.content_hash
              = last.source.request.content_hash
       /\ flows[last.id] = last.source

\* C10: a handler's proxy.update_flow succeeds exactly when the flow's id is
\* in the store, and then stores the handler's copy whole; otherwise it fails
\* and leaves the store as it is; so no removed flow is ever in the store again.
C10_UpdateOnlyIfPresent ==
    /\ [][\A h \in HandlerTasks :
            (handlers[h].pc = "update" /\ handlers'[h].pc = "idle")
            => LET f == Unwrap(handlers[h].flow)
               IN  IF f.id \in DOMAIN flows
                   THEN last'.updated /\ flows' = [flows EXCEPT ![f.id] = f]
                   ELSE ~last'.updated /\ flows' = flows]_vars
    /\ [](removed \cap DOMAIN flows = {})

C10_Witness ==
    /\ "updated" \in DOMAIN last
    /\ ~last.updated
    /\ last.id \in removed

\* ------------------------------------------------------------------------
\* set_content on one request or response (flow.rs)
\* ------------------------------------------------------------------------

MaxBodyLen == 3

BodyBytes == {"a", "b", "c"}

\* every body of at most MaxBodyLen bytes, the empty body included
ContentBodies == UNION { [1..n -> BodyBytes] : n \in 0..MaxBodyLen }

\* HTTPRequest::set_content / HTTPResponse::set_content on the message
SetContentCall(B) ==
    /\ message' = SetContent(message, B)
    /\ body_set' = Some(B)
    /\ UNCHANGED notContentVars

InitContentVars ==
    /\ message = NewRequest("/")
    /\ body_set = NoneOpt

InitContent ==
    /\ message \in {NewRequest("/"), NewResponse("200")}
    /\ body_set = NoneOpt

NextContent == \E B \in ContentBodies : SetContentCall(B)

\* C4: immediately after any set_content(B), content_length is the length of
\* B and content_hash is SHA256(B), for every body B, the empty one included.
C4_LengthAndHashFollowContent ==
    IsSome(body_set)
    => /\ message.content = body_set
       /\ message.content_length = Some(Len(Unwrap(body_set)))
       /\ message.content_hash = Some(Sha256(Unwrap(body_set)))

\* ------------------------------------------------------------------------
\* SSE framing parser (sse.rs). A string is the sequence of its UTF-8 bytes,
\* one byte per element: an ASCII byte is written as its character ("LF",
\* "CR", "SP" and "NUL" for the unprintable ones), "C3" is the lead byte and
\* "A9" the continuation byte of a two-byte character.
\* ------------------------------------------------------------------------

MaxTokens == 4

Digits == {"0", "1", "2", "3", "4", "5", "6", "7", "8", "9"}

DigitValue(d) == CHOOSE n \in 0..9 : d = ToString(n)

\* the pieces the streams are made of
Tokens ==
    { <<"d", "a", "t", "a", ":">>, <<"e", "v", "e", "n", "t", ":">>,
      <<"i", "d", ":">>, <<"r", "e", "t", "r", "y", ":">>,
      <<":">>, <<"SP">>, <<"x">>, <<"1">>, <<"C3", "A9">>, <<"LF">>, <<"CR">> }

RECURSIVE Flatten(_)
Flatten(ss) == IF ss = <<>> THEN <<>> ELSE Head(ss) \o Flatten(Tail(ss))

\* every stream of at most MaxTokens tokens: all of them valid UTF-8
SseStreams == { Flatten(ts) : ts \in UNION { [1..n -> Tokens] : n \in 0..MaxTokens } }

\* std::str::from_utf8(chunk).is_ok() over this byte alphabet
RECURSIVE IsValidUtf8(_)
IsValidUtf8(bytes) ==
    IF bytes = <<>> THEN TRUE
    ELSE IF Head(bytes) = "C3"
         THEN Len(bytes) >= 2 /\ bytes[2] = "A9" /\ IsValidUtf8(From(bytes, 3))
    ELSE IF Head(bytes) = "A9" THEN FALSE
    ELSE IsValidUtf8(Tail(bytes))

\* str::find: the number of bytes before the first b, None when there is none
Find(str, b) ==
    IF \E i \in 1..Len(str) : str[i] = b
    THEN Some((CHOOSE i \in 1..Len(str) :
                  str[i] = b /\ \A j \in 1..(i - 1) : str[j] # b) - 1)
    ELSE NoneOpt

\* [String]::join
RECURSIVE Join(_, _)
Join(strs, sep) ==
    IF strs = <<>> THEN <<>>
    ELSE IF Len(strs) = 1 THEN strs[1]
    ELSE strs[1] \o sep \o Join(Tail(strs), sep)

\* str::parse::<u64> (the values here are far below u64::MAX)
RECURSIVE DecimalValue(_, _)
DecimalValue(ds, acc) ==
    IF ds = <<>> THEN acc
    ELSE DecimalValue(Tail(ds), 10 * acc + DigitValue(Head(ds)))

ParseU64(value) ==
    LET ds == IF value # <<>> /\ Head(value) = "+" THEN Tail(value) ELSE value
    IN  IF ds # <<>> /\ \A i \in 1..Len(ds) : ds[i] \in Digits
        THEN Some(DecimalValue(ds, 0)) ELSE NoneOpt

\* EventBuilder::default
NewEventBuilder ==
    [event_type |-> NoneOpt, data_lines |-> <<>>, id |-> NoneOpt, retry |-> NoneOpt]

\* EventBuilder::is_empty
BuilderIsEmpty(b) ==
    b.event_type = NoneOpt /\ b.data_lines = <<>> /\ b.id = NoneOpt /\ b.retry = NoneOpt

\* EventBuilder::build
Build(b) ==
    IF b.data_lines = <<>> THEN NoneOpt
    ELSE Some([event_type |-> IF IsSome(b.event_type) THEN Unwrap(b.event_type)
                              ELSE <<"m", "e", "s", "s", "a", "g", "e">>,
               data |-> Join(b.data_lines, <<"LF">>),
               id |-> b.id, retry |-> b.retry])

\* SseParser::new
NewSseParser ==
    [line_buffer |-> <<>>, current_event |-> NewEventBuilder, last_event_id |-> NoneOpt]

\* SseParser::find_line_end: the number of bytes before the line ending
FindLineEnd(buf) ==
    LET at == Find(buf, "LF") IN
    IF at = NoneOpt THEN NoneOpt
    ELSE LET i == Unwrap(at) IN
         IF i > 0 /\ buf[i] = "CR" THEN Some(i - 1) ELSE Some(i)

\* the field and the value process_line splits a line into
FieldOf(line) ==
    LET colon_pos == Find(line, ":") IN
    IF IsSome(colon_pos) THEN Slice(line, 1, Unwrap(colon_pos)) ELSE line

ValueOf(line) ==
    LET colon_pos == Find(line, ":") IN
    IF IsSome(colon_pos)
    THEN LET rest == From(line, Unwrap(colon_pos) + 2)
         IN  IF rest # <<>> /\ Head(rest) = "SP" THEN Tail(rest) ELSE rest
    ELSE <<>>

\* SseParser::process_line: the parser afterwards and the event it returns
ProcessLine(p, line) ==
    IF line = <<>>
    THEN IF ~BuilderIsEmpty(p.current_event)
         THEN LET evt == Build(p.current_event)
                  taken == [p EXCEPT !.current_event = NewEventBuilder]
              IN  IF IsSome(evt)
                  THEN [parser |-> IF IsSome(Unwrap(evt).id)
                                   THEN [taken EXCEPT !.last_event_id = Unwrap(evt).id]
                                   ELSE taken,
                        event |-> evt]
                  ELSE [parser |-> taken, event |-> NoneOpt]
         ELSE [parser |-> p, event |-> NoneOpt]
    ELSE IF Head(line) = ":" THEN [parser |-> p, event |-> NoneOpt]
    ELSE LET field == FieldOf(line)
             value == ValueOf(line)
             q == CASE field = <<"e", "v", "e", "n", "t">> ->
                         [p EXCEPT !.current_event.event_type = Some(value)]
                    [] field = <<"d", "a", "t", "a">> ->
                         [p EXCEPT !.current_event.data_lines = Append(@, value)]
                    [] field = <<"i", "d">> ->
                         IF \A k \in 1..Len(value) : value[k] # "NUL"
                         THEN [p EXCEPT !.current_event.id = Some(value)]
                         ELSE p
                    [] field = <<"r", "e", "t", "r", "y">> ->
                         IF IsSome(ParseU64(value))
                         THEN [p EXCEPT !.current_event.retry = ParseU64(value)]
                         ELSE p
                    [] OTHER -> p
         IN  [parser |-> q, event |-> NoneOpt]

\* the while loop of parse_str: takes the complete lines off the buffer
RECURSIVE ProcessLines(_, _)
ProcessLines(p, events) ==
    LET found == FindLineEnd(p.line_buffer) IN
    IF found = NoneOpt THEN [parser |-> p, events |-> events]
    ELSE LET line_end == Unwrap(found)
             buf == p.line_buffer
             line == Slice(buf, 1, line_end)
             skip == IF buf[line_end + 1] = "CR" /\ Len(buf) >= line_end + 2
                        /\ buf[line_end + 2] = "LF"
                     THEN 2 ELSE 1
             r == ProcessLine([p EXCEPT !.line_buffer = From(buf, line_end + skip + 1)],
                              line)
         IN  ProcessLines(r.parser, events \o r.event)

\* SseParser::parse_str
ParseStr(p, chunk) ==
    ProcessLines([p EXCEPT !.line_buffer = @ \o chunk], <<>>)

\* SseParser::parse_chunk: a chunk that is not valid UTF-8 is skipped
ParseChunk(p, chunk) ==
    IF IsValidUtf8(chunk) THEN ParseStr(p, chunk)
    ELSE [parser |-> p, events |-> <<>>]

\* SseParser::flush
Flush(p) ==
    LET q == IF p.line_buffer # <<>>
             THEN ProcessLine([p EXCEPT !.line_buffer = <<>>], p.line_buffer).parser
             ELSE p
    IN  [parser |-> [q EXCEPT !.current_event = NewEventBuilder],
         events |-> Build(q.current_event)]

\* parse_chunk on the next k bytes of the stream
FeedChunk(k) ==
    /\ ~sse_flushed
    /\ k \in 1..(Len(sse_stream) - sse_pos)
    /\ LET r == ParseChunk(parser, Slice(sse_stream, sse_pos + 1, sse_pos + k))
       IN  /\ parser' = r.parser
           /\ sse_events' = sse_events \o r.events
    /\ sse_pos' = sse_pos + k
    /\ UNCHANGED <<sse_stream, sse_flushed, notSseVars>>

\* flush at the end of the stream
FlushStream ==
    /\ ~sse_flushed
    /\ sse_pos = Len(sse_stream)
    /\ LET r == Flush(parser)
       IN  /\ parser' = r.parser
           /\ sse_events' = sse_events \o r.events
    /\ sse_flushed' = TRUE
    /\ UNCHANGED <<sse_stream, sse_pos, notSseVars>>

InitSseVars ==
    /\ sse_stream = <<>>
    /\ sse_pos = 0
    /\ parser = NewSseParser
    /\ sse_events = <<>>
    /\ sse_flushed = FALSE

InitSseStream ==
    /\ sse_stream \in SseStreams
    /\ sse_pos = 0
    /\ parser = NewSseParser
    /\ sse_events = <<>>
    /\ sse_flushed = FALSE

NextSse ==
    \/ \E k \in 1..Len(sse_stream) : FeedChunk(k)
    \/ FlushStream

\* the events of the stream fed as a single chunk and then flushed
ParseWhole(S) ==
    LET r == ParseChunk(NewSseParser, S)
    IN  r.events \o Flush(r.parser).events

\* C2: for every stream and every partition of it into chunks, the events
\* returned by parse_chunk over the chunks and then by flush are the events
\* returned for the stream fed as one chunk and then flushed.
C2_ChunkBoundaryIndependence ==
    sse_flushed => sse_events = ParseWhole(sse_stream)

\* ------------------------------------------------------------------------
\* Leaf certificate cache (certs.rs)
\* ------------------------------------------------------------------------

MaxGets == 4
MaxClears == 1

Hostnames == {"a.test", "b.test"}

CertTasks == {"t1", "t2"}

CertIdle == [pc |-> "idle", hostname |-> None, cert |-> NoneOpt, clears |-> 0]

\* CertificateAuthority::generate_host_cert: a fresh RSA key and a random
\* 159-bit serial make every generated leaf differ from every earlier one
GenerateHostCert(hostname, n) == [hostname |-> hostname, serial |-> n]

\* get_cert_for_host, the cache check under the read lock: a hit returns the
\* cached leaf, a miss drops the lock and goes on to generate one
GetCertForHost(t, hostname) ==
    /\ cert_tasks[t].pc = "idle"
    /\ Cardinality(returned) + Cardinality({u \in CertTasks : cert_tasks[u].pc # "idle"})
           < MaxGets
    /\ IF hostname \in DOMAIN cert_cache
       THEN /\ returned' = returned \cup
                    {[task |-> t, n |-> Cardinality(returned), hostname |-> hostname,
                      cert |-> cert_cache[hostname], clears |-> clears]}
            /\ UNCHANGED cert_tasks
       ELSE /\ cert_tasks' = [cert_tasks EXCEPT ![t] =
                    [pc |-> "generate", hostname |-> hostname, cert |-> NoneOpt,
                     clears |-> clears]]
            /\ UNCHANGED returned
    /\ UNCHANGED <<cert_cache, generated, clears, notCertVars>>

\* get_cert_for_host, self.generate_host_cert(hostname), no lock held
GetCertGenerate(t) ==
    /\ cert_tasks[t].pc = "generate"
    /\ generated' = generated + 1
    /\ cert_tasks' = [cert_tasks EXCEPT ![t].pc = "insert",
                         ![t].cert = Some(GenerateHostCert(cert_tasks[t].hostname,
                                                           generated + 1))]
    /\ UNCHANGED <<cert_cache, clears, returned, notCertVars>>

\* get_cert_for_host, the insert under the write lock and the return of the
\* task's own leaf. A call that a clear_cache ran across is not recorded.
GetCertInsert(t) ==
    /\ cert_tasks[t].pc = "insert"
    /\ LET hostname == cert_tasks[t].hostname
           cert == Unwrap(cert_tasks[t].cert)
       IN  /\ cert_cache' = [h \in DOMAIN cert_cache \cup {hostname} |->
                                IF h = hostname THEN cert ELSE cert_cache[h]]
           /\ returned' = IF cert_tasks[t].clears = clears
                          THEN returned \cup
                               {[task |-> t, n |-> Cardinality(returned),
                                 hostname |-> hostname, cert |-> cert,
                                 clears |-> clears]}
                          ELSE returned
    /\ cert_tasks' = [cert_tasks EXCEPT ![t] = CertIdle]
    /\ UNCHANGED <<generated, clears, notCertVars>>

\* CertificateAuthority::clear_cache
ClearCache ==
    /\ clears < MaxClears
    /\ clears' = clears + 1
    /\ cert_cache' = [h \in {} |-> NoneOpt]
    /\ UNCHANGED <<cert_tasks, generated, returned, notCertVars>>

InitCertVars ==
    /\ cert_cache = [h \in {} |-> NoneOpt]
    /\ cert_tasks = [t \in CertTasks |-> CertIdle]
    /\ generated = 0
    /\ clears = 0
    /\ returned = {}

NextCerts ==
    \/ \E t \in CertTasks, h \in Hostnames : GetCertForHost(t, h)
    \/ \E t \in CertTasks : GetCertGenerate(t)
    \/ \E t \in CertTasks : GetCertInsert(t)
    \/ ClearCache

\* C3: any two calls of get_cert_for_host for the same hostname with no
\* clear_cache between them, sequential or concurrent, return the same leaf.
C3_CacheStability ==
    \A r1 \in returned, r2 \in returned :
        (r1.hostname = r2.hostname /\ r1.clears = r2.clears) => r1.cert = r2.cert

\* ------------------------------------------------------------------------
\* HTTP/1 client (proxy/layers/http.rs Http1Client). Strings and buffers are
\* sequences of bytes, written as in the SSE parser ("HT" is the tab).
\* ------------------------------------------------------------------------

MaxH1Body == 2

Uppers ==
    <<"A", "B", "C", "D", "E", "F", "G", "H", "I", "J", "K", "L", "M",
      "N", "O", "P", "Q", "R", "S", "T", "U", "V", "W", "X", "Y", "Z">>

Lowers ==
    <<"a", "b", "c", "d", "e", "f", "g", "h", "i", "j", "k", "l", "m",
      "n", "o", "p", "q", "r", "s", "t", "u", "v", "w", "x", "y", "z">>

\* str::to_lowercase and str::to_uppercase
ToLowercase(str) ==
    [i \in 1..Len(str) |->
        IF \E k \in 1..Len(Uppers) : Uppers[k] = str[i]
        THEN Lowers[CHOOSE k \in 1..Len(Uppers) : Uppers[k] = str[i]] ELSE str[i]]

ToUppercase(str) ==
    [i \in 1..Len(str) |->
        IF \E k \in 1..Len(Lowers) : Lowers[k] = str[i]
        THEN Uppers[CHOOSE k \in 1..Len(Lowers) : Lowers[k] = str[i]] ELSE str[i]]

Whitespace == {"SP", "HT", "CR", "LF"}

\* str::trim
RECURSIVE TrimStart(_)
TrimStart(str) ==
    IF str # <<>> /\ Head(str) \in Whitespace THEN TrimStart(Tail(str)) ELSE str

RECURSIVE TrimEnd(_)
TrimEnd(str) ==
    IF str # <<>> /\ str[Len(str)] \in Whitespace
    THEN TrimEnd(Slice(str, 1, Len(str) - 1)) ELSE str

Trim(str) == TrimEnd(TrimStart(str))

\* slice::windows(n).position(|w| w == pat): bytes before the first match
FindWindow(buf, pat) ==
    LET n == Len(pat)
        hits == { i \in 1..(Len(buf) - n + 1) : SubSeq(buf, i, i + n - 1) = pat }
    IN  IF hits = {} THEN NoneOpt
        ELSE Some((CHOOSE i \in hits : \A j \in hits : i <= j) - 1)

\* str::contains
Contains(str, pat) == IsSome(FindWindow(str, pat))

\* slice::split(|b| b == sep): the pieces between the separators
RECURSIVE SplitAt(_, _)
SplitAt(data, seps) ==
    LET hits == { i \in 1..Len(data) : data[i] \in seps } IN
    IF hits = {} THEN <<data>>
    ELSE LET i == CHOOSE k \in hits : \A j \in hits : k <= j
         IN  <<Slice(data, 1, i - 1)>> \o SplitAt(From(data, i + 1), seps)

NonEmpty(str) == str # <<>>

\* ReceiveBuffer::split_lines
SplitLines(data) ==
    LET strip(line) == IF line # <<>> /\ line[Len(line)] = "CR"
                       THEN Slice(line, 1, Len(line) - 1) ELSE line
        pieces == SplitAt(data, {"LF"})
    IN  SelectSeq([i \in 1..Len(pieces) |-> strip(pieces[i])], NonEmpty)

\* str::split_whitespace
SplitWhitespace(str) == SelectSeq(SplitAt(str, Whitespace), NonEmpty)

\* HashMap::insert
Insert(map, k, v) == [n \in DOMAIN map \cup {k} |-> IF n = k THEN v ELSE map[n]]

EmptyMap == [n \in {} |-> <<>>]

\* usize::from_str_radix(s, 16) for the chunk sizes that fit one hex digit
HexDigits ==
    <<"0", "1", "2", "3", "4", "5", "6", "7", "8", "9", "a", "b", "c", "d", "e", "f">>

RECURSIVE HexValue(_, _)
HexValue(ds, acc) ==
    IF ds = <<>> THEN acc
    ELSE HexValue(Tail(ds),
                  16 * acc + (CHOOSE k \in 1..16 : HexDigits[k] = Head(ds)) - 1)

ParseHex(str) ==
    LET lower == ToLowercase(str)
        ds == IF lower # <<>> /\ Head(lower) = "+" THEN Tail(lower) ELSE lower
    IN  IF ds # <<>> /\ \A i \in 1..Len(ds) : \E k \in 1..16 : HexDigits[k] = ds[i]
        THEN Some(HexValue(ds, 0)) ELSE NoneOpt

CRLF == <<"CR", "LF">>

\* the commands the client returns
CloseConnection == [cmd |-> "CloseConnection", connection |-> "server"]

SendData(data) == [cmd |-> "SendData", connection |-> "server", data |-> data]

ReceiveHttp(event) == [cmd |-> "ReceiveHttp", event |-> event]

ResponseHeaders(stream_id, response, end_stream) ==
    [type |-> "ResponseHeaders", stream_id |-> stream_id, response |-> response,
     end_stream |-> end_stream]

ResponseData(stream_id, data) ==
    [type |-> "ResponseData", stream_id |-> stream_id, data |-> data]

ResponseEndOfMessage(stream_id) ==
    [type |-> "ResponseEndOfMessage", stream_id |-> stream_id]

ResponseProtocolError(stream_id, msg) ==
    [type |-> "ResponseProtocolError", stream_id |-> stream_id,
     message |-> msg, code |-> "GenericServerError"]

\* what a method of the client returns: Ok(commands) or Err, and the client
Ok(c, cmds) == [client |-> c, commands |-> cmds, err |-> FALSE]
Err(c) == [client |-> c, commands |-> <<>>, err |-> TRUE]

\* the body size calculate_expected_response_body_size returns: a byte count,
\* usize::MAX for chunked or usize::MAX - 1 for read-until-EOF
Sized(n) == [kind |-> "length", n |-> n]
Chunked == [kind |-> "usize::MAX", n |-> 0]
UntilEof == [kind |-> "usize::MAX - 1", n |-> 0]

\* Http1Client::parse_response_head
ParseResponseHead(lines) ==
    IF lines = <<>> THEN [ok |-> FALSE, error |-> "Empty response"]
    ELSE LET parts == SplitWhitespace(lines[1]) IN
         IF Len(parts) < 2 THEN [ok |-> FALSE, error |-> "Invalid status line"]
         ELSE LET code == ParseU64(parts[2]) IN
              IF code = NoneOpt \/ Unwrap(code) > 65535
              THEN [ok |-> FALSE, error |-> "Invalid status code"]
              ELSE LET add(headers, line) ==
                           LET colon_pos == Find(line, ":") IN
                           IF IsSome(colon_pos)
                           THEN Insert(headers,
                                       ToLowercase(Trim(Slice(line, 1, Unwrap(colon_pos)))),
                                       Trim(From(line, Unwrap(colon_pos) + 2)))
                           ELSE headers
                       header_lines == Tail(lines)
                       upto[k \in 0..Len(header_lines)] ==
                           IF k = 0 THEN EmptyMap ELSE add(upto[k - 1], header_lines[k])
                   IN  [ok |-> TRUE,
                        response |->
                            [version |-> parts[1],
                             status_code |-> Unwrap(code),
                             reason |-> Join(SubSeq(parts, 3, Len(parts)), <<"SP">>),
                             headers |-> upto[Len(header_lines)]]]

\* Http1Client::calculate_expected_response_body_size
CalculateExpectedResponseBodySize(request, response) ==
    IF ToUppercase(request.method) = <<"H", "E", "A", "D">> THEN Some(Sized(0))
    ELSE IF response.status_code < 200 \/ response.status_code = 204
            \/ response.status_code = 304
    THEN Some(Sized(0))
    ELSE IF ToUppercase(request.method) = <<"C", "O", "N", "N", "E", "C", "T">> /\ response.status_code = 200
    THEN Some(Sized(0))
    ELSE IF /\ <<"t", "r", "a", "n", "s", "f", "e", "r", "-", "e", "n", "c", "o", "d", "i", "n", "g">> \in DOMAIN response.headers
            /\ Contains(ToLowercase(response.headers[<<"t", "r", "a", "n", "s", "f", "e", "r", "-", "e", "n", "c", "o", "d", "i", "n", "g">>]), <<"c", "h", "u", "n", "k", "e", "d">>)
    THEN Some(Chunked)
    ELSE IF <<"c", "o", "n", "t", "e", "n", "t", "-", "l", "e", "n", "g", "t", "h">> \in DOMAIN response.headers
    THEN LET n == ParseU64(response.headers[<<"c", "o", "n", "t", "e", "n", "t", "-", "l", "e", "n", "g", "t", "h">>])
         IN  IF IsSome(n) THEN Some(Sized(Unwrap(n))) ELSE NoneOpt
    ELSE IF response.version = <<"H", "T", "T", "P", "/", "1", ".", "0">> THEN Some(UntilEof)
    ELSE Some(Sized(0))

\* Http1Client::is_chunked_encoding_request
IsChunkedEncodingRequest(request) ==
    /\ <<"t", "r", "a", "n", "s", "f", "e", "r", "-", "e", "n", "c", "o", "d", "i", "n", "g">> \in DOMAIN request.headers
    /\ Contains(ToLowercase(request.headers[<<"t", "r", "a", "n", "s", "f", "e", "r", "-", "e", "n", "c", "o", "d", "i", "n", "g">>]), <<"c", "h", "u", "n", "k", "e", "d">>)

\* Http1Client::encode_chunk (chunks of fewer than 16 bytes)
EncodeChunk(data) == <<HexDigits[Len(data) + 1]>> \o CRLF \o data \o CRLF

\* Http1Client::should_make_pipe
ShouldMakePipe(request, response) ==
    \/ response.status_code = 101
    \/ response.status_code = 200 /\ ToUppercase(request.method) = <<"C", "O", "N", "N", "E", "C", "T">>

\* Http1Client::should_close_connection
ShouldCloseConnection(request, response) ==
    LET has(headers, word) ==
            /\ <<"c", "o", "n", "n", "e", "c", "t", "i", "o", "n">> \in DOMAIN headers
            /\ Contains(ToLowercase(headers[<<"c", "o", "n", "n", "e", "c", "t", "i", "o", "n">>]), word)
    IN  \/ has(request.headers, <<"c", "l", "o", "s", "e">>)
        \/ has(response.headers, <<"c", "l", "o", "s", "e">>)
        \/ request.version = <<"H", "T", "T", "P", "/", "1", ".", "0">> /\ ~has(request.headers, <<"k", "e", "e", "p", "-", "a", "l", "i", "v", "e">>)

\* Http1Client::handle_passthrough
HandlePassthrough(c, event) ==
    LET stream_id == IF IsSome(c.stream_id) THEN Unwrap(c.stream_id) ELSE 1 IN
    CASE event.type = "DataReceived" ->
           Ok(c, <<ReceiveHttp(ResponseData(stream_id, event.data))>>)
      [] event.type = "ConnectionClosed" ->
           Ok(c, <<ReceiveHttp(ResponseEndOfMessage(stream_id))>>)
      [] OTHER -> Ok(c, <<>>)

\* Http1Client::make_pipe
MakePipe(c) ==
    LET c1 == [c EXCEPT !.state = "Passthrough"] IN
    IF c1.buf # <<>>
    THEN LET c2 == [c1 EXCEPT !.buf = <<>>]
             already_received == IF IsPrefix(CRLF, c1.buf) THEN From(c1.buf, 3)
                                 ELSE c1.buf
         IN  IF already_received # <<>>
             THEN HandlePassthrough(c2, [type |-> "DataReceived",
                                         data |-> already_received])
             ELSE Ok(c2, <<>>)
    ELSE Ok(c1, <<>>)

\* Http1Client::read_headers
ReadHeaders(c, event) ==
    CASE event.type = "DataReceived" ->
           IF c.request = NoneOpt THEN Ok(c, <<CloseConnection>>)
           ELSE LET buf == c.buf \o event.data
                    pos == FindWindow(buf, CRLF \o CRLF)
                IN  IF pos = NoneOpt THEN Ok([c EXCEPT !.buf = buf], <<>>)
                    ELSE LET head == ParseResponseHead(
                                         SplitLines(Slice(buf, 1, Unwrap(pos) + 4)))
                             c1 == [c EXCEPT !.buf = From(buf, Unwrap(pos) + 5)]
                             stream_id == Unwrap(c.stream_id)
                         IN  IF head.ok
                             THEN LET c2 == [c1 EXCEPT !.response = Some(head.response)]
                                      size == CalculateExpectedResponseBodySize(
                                                  Unwrap(c.request), head.response)
                                  IN  IF size = NoneOpt THEN Err(c2)
                                      ELSE Ok([c2 EXCEPT !.state = "ReadBody"],
                                              <<ReceiveHttp(ResponseHeaders(
                                                    stream_id, head.response,
                                                    Unwrap(size) = Sized(0)))>>)
                             ELSE Ok(c1, <<CloseConnection,
                                           ReceiveHttp(ResponseProtocolError(
                                               stream_id, "Cannot parse HTTP response"))>>)
      [] event.type = "ConnectionClosed" ->
           IF c.server_conn_state # "Closed" THEN Ok(c, <<CloseConnection>>)
           ELSE IF IsSome(c.stream_id)
           THEN Ok(c, <<ReceiveHttp(ResponseProtocolError(
                            Unwrap(c.stream_id),
                            IF c.buf # <<>> THEN "Unexpected server response"
                            ELSE "Server closed connection"))>>)
           ELSE Ok(c, <<>>)
      [] OTHER -> Ok(c, <<>>)

\* Http1Client::mark_done
MarkDone(c, request, response) ==
    LET c1 == [c EXCEPT !.request_done = c.request_done \/ request,
                        !.response_done = c.response_done \/ response]
        reset == [c1 EXCEPT !.request_done = FALSE, !.response_done = FALSE,
                            !.request = NoneOpt, !.response = NoneOpt,
                            !.stream_id = NoneOpt, !.state = "ReadHeaders"]
        next_message == IF reset.buf # <<>>
                        THEN ReadHeaders(reset, [type |-> "DataReceived", data |-> <<>>])
                        ELSE Ok(reset, <<>>)
    IN  IF c1.request_done /\ c1.response_done
        THEN IF IsSome(c1.request) /\ IsSome(c1.response)
             THEN LET req == Unwrap(c1.request)
                      resp == Unwrap(c1.response)
                      read_until_eof_semantics ==
                          CalculateExpectedResponseBodySize(req, resp) = Some(UntilEof)
                      connection_done ==
                          \/ read_until_eof_semantics
                          \/ ShouldCloseConnection(req, resp)
                          \/ req.version = <<"H", "T", "T", "P", "/", "2">> \/ req.version = <<"H", "T", "T", "P", "/", "3">>
                  IN  IF ShouldMakePipe(req, resp) THEN MakePipe(c1)
                      ELSE IF connection_done
                      THEN Ok([c1 EXCEPT !.state = "Done"], <<CloseConnection>>)
                      ELSE next_message
             ELSE next_message
        ELSE IF c1.request_done /\ ~c1.response_done
        THEN Ok([c1 EXCEPT !.state = "Wait"], <<>>)
        ELSE Ok(c1, <<>>)

\* a call's result with cmds put in front of the commands it returned
After(cmds, result) ==
    IF result.err THEN result ELSE [result EXCEPT !.commands = cmds \o @]

\* Http1Client::read_chunked_response_body, the loop with the commands so far
RECURSIVE ReadChunkedResponseBody(_, _)
ReadChunkedResponseBody(c, cmds) ==
    LET line_end == FindWindow(c.buf, CRLF)
        stream_id == Unwrap(c.stream_id)
    IN  IF line_end = NoneOpt THEN Ok(c, cmds)
        ELSE LET chunk_size == ParseHex(Trim(Slice(c.buf, 1, Unwrap(line_end))))
                 c1 == [c EXCEPT !.buf = From(c.buf, Unwrap(line_end) + 3)]
             IN  IF chunk_size = NoneOpt
                 THEN Ok(c1, <<CloseConnection,
                               ReceiveHttp(ResponseProtocolError(
                                   stream_id,
                                   "HTTP/1 protocol error: Invalid chunk size"))>>)
                 ELSE IF Unwrap(chunk_size) = 0
                 THEN LET trailer_end == FindWindow(c1.buf, CRLF \o CRLF)
                          c2 == IF IsSome(trailer_end)
                                THEN [c1 EXCEPT !.buf = From(@, Unwrap(trailer_end) + 5)]
                                ELSE c1
                      IN  After(Append(cmds,
                                       ReceiveHttp(ResponseEndOfMessage(stream_id))),
                                MarkDone(c2, FALSE, TRUE))
                 ELSE IF Len(c1.buf) >= Unwrap(chunk_size) + 2
                 THEN LET n == Unwrap(chunk_size) IN
                      ReadChunkedResponseBody(
                          [c1 EXCEPT !.buf = From(@, n + 3)],
                          Append(cmds,
                                 ReceiveHttp(ResponseData(stream_id,
                                                          Slice(c1.buf, 1, n)))))
                 ELSE Ok(c1, cmds)

\* Http1Client::read_until_eof_body
ReadUntilEofBody(c) ==
    IF c.buf # <<>>
    THEN Ok([c EXCEPT !.buf = <<>>],
            <<ReceiveHttp(ResponseData(Unwrap(c.stream_id), c.buf))>>)
    ELSE Ok(c, <<>>)

\* Http1Client::read_content_length_response_body
ReadContentLengthResponseBody(c, expected_size) ==
    IF Len(c.buf) >= expected_size
    THEN After(<<ReceiveHttp(ResponseData(Unwrap(c.stream_id),
                                          Slice(c.buf, 1, expected_size))),
                 ReceiveHttp(ResponseEndOfMessage(Unwrap(c.stream_id)))>>,
               MarkDone([c EXCEPT !.buf = From(@, expected_size + 1)], FALSE, TRUE))
    ELSE Ok(c, <<>>)

\* Http1Client::read_body
ReadBody(c, event) ==
    LET both == IsSome(c.request) /\ IsSome(c.response)
        size(cl) == CalculateExpectedResponseBodySize(Unwrap(cl.request),
                                                      Unwrap(cl.response))
    IN  CASE event.type = "DataReceived" /\ both ->
               LET c1 == [c EXCEPT !.buf = @ \o event.data] IN
               IF size(c1) = NoneOpt THEN Err(c1)
               ELSE IF size(c1) = Some(Sized(0)) THEN MarkDone(c1, FALSE, TRUE)
               ELSE IF size(c1) = Some(Chunked) THEN ReadChunkedResponseBody(c1, <<>>)
               ELSE IF size(c1) = Some(UntilEof) THEN ReadUntilEofBody(c1)
               ELSE ReadContentLengthResponseBody(c1, Unwrap(size(c1)).n)
          [] event.type = "ConnectionClosed" /\ both ->
               IF size(c) = NoneOpt THEN Err(c)
               ELSE IF size(c) = Some(UntilEof)
               THEN After((IF c.buf # <<>>
                           THEN <<ReceiveHttp(ResponseData(Unwrap(c.stream_id), c.buf))>>
                           ELSE <<>>)
                          \o <<ReceiveHttp(ResponseEndOfMessage(Unwrap(c.stream_id)))>>,
                          MarkDone([c EXCEPT !.buf = <<>>], FALSE, TRUE))
               ELSE Ok(c, <<>>)
          [] OTHER -> Ok(c, <<>>)

\* Http1Client::send_event. The SendData of a request head carries the request
\* it is assembled from (as HTTP/1.1 when it came over HTTP/2 or HTTP/3).
SendEvent(c, event) ==
    IF event.type = "RequestProtocolError" THEN Ok(c, <<CloseConnection>>)
    ELSE IF c.stream_id = NoneOpt /\ event.type # "RequestHeaders" THEN Err(c)
    ELSE LET c1 == IF c.stream_id = NoneOpt
                   THEN [c EXCEPT !.stream_id = Some(event.stream_id),
                                  !.request = Some(event.request)]
                   ELSE c
         IN  IF Some(event.stream_id) # c1.stream_id THEN Err(c1)
             ELSE CASE event.type = "RequestHeaders" ->
                         Ok(c1, <<SendData(
                                [request_head |->
                                    IF event.request.version \in {<<"H", "T", "T", "P", "/", "2">>, <<"H", "T", "T", "P", "/", "3">>}
                                    THEN [event.request EXCEPT !.version = <<"H", "T", "T", "P", "/", "1", ".", "1">>]
                                    ELSE event.request])>>)
                    [] event.type = "RequestData" ->
                         LET raw_data ==
                                 IF c1.request = NoneOpt THEN <<>>
                                 ELSE IF IsChunkedEncodingRequest(Unwrap(c1.request))
                                 THEN EncodeChunk(event.data)
                                 ELSE event.data
                         IN  Ok(c1, IF raw_data # <<>> THEN <<SendData(raw_data)>>
                                    ELSE <<>>)
                    [] event.type = "RequestEndOfMessage" ->
                         LET size == IF IsSome(c1.request) /\ IsSome(c1.response)
                                     THEN CalculateExpectedResponseBodySize(
                                              Unwrap(c1.request), Unwrap(c1.response))
                                     ELSE Some(Sized(0))
                             cmds == IF c1.request = NoneOpt THEN <<>>
                                     ELSE IF IsChunkedEncodingRequest(Unwrap(c1.request))
                                     THEN <<SendData(<<"0">> \o CRLF \o CRLF)>>
                                     ELSE IF size = Some(UntilEof)
                                     THEN <<CloseConnection>>
                                     ELSE <<>>
                         IN  IF IsSome(c1.request)
                                /\ ~IsChunkedEncodingRequest(Unwrap(c1.request))
                                /\ size = NoneOpt
                             THEN Err(c1)
                             ELSE After(cmds, MarkDone(c1, TRUE, FALSE))
                    [] OTHER -> Err(c1)

\* the events try_extract_http_event hands on as HTTP events (the one method
\* of that name returning Box<dyn HttpEvent>)
HttpEventTypes ==
    {"ResponseHeaders", "ResponseData", "ResponseEndOfMessage", "ResponseProtocolError"}

\* impl Layer for Http1Client: handle_event
Http1HandleEvent(c, event) ==
    CASE c.state = "Start" ->
           IF event.type = "Start" THEN Ok([c EXCEPT !.state = "ReadHeaders"], <<>>)
           ELSE Err(c)
      [] c.state = "ReadHeaders" -> ReadHeaders(c, event)
      [] c.state = "ReadBody" -> ReadBody(c, event)
      [] c.state = "Wait" ->
           IF event.type \in HttpEventTypes THEN SendEvent(c, event) ELSE Ok(c, <<>>)
      [] c.state = "Passthrough" -> HandlePassthrough(c, event)
      [] OTHER -> Ok(c, <<>>)

\* Http1Client::new; server_conn_state is context.server_conn.state
NewHttp1Client(server_conn_state) ==
    [stream_id |-> NoneOpt, request |-> NoneOpt, response |-> NoneOpt,
     request_done |-> FALSE, response_done |-> FALSE, buf |-> <<>>,
     state |-> "Start", server_conn_state |-> server_conn_state]

\* the request the proxy forwards upstream: one that came in over HTTP/1.1,
\* and one that came in over HTTP/2, with the version
\* Http2Connection::create_request_from_headers gives it
H1Requests ==
    { [method |-> <<"G", "E", "T">>, path |-> <<"/">>, version |-> version, headers |-> EmptyMap] :
      version \in {<<"H", "T", "T", "P", "/", "1", ".", "1">>, <<"H", "T", "T", "P", "/", "2", ".", "0">>} }

H1BodyBytes == {"a", "x"}

\* every message body of at most MaxH1Body bytes
H1Bodies == UNION { [1..n -> H1BodyBytes] : n \in 0..MaxH1Body }

\* every way of cutting a body into non-empty chunks
RECURSIVE Chunkings(_)
Chunkings(body) ==
    IF body = <<>> THEN { <<>> }
    ELSE UNION { { <<Slice(body, 1, k)>> \o rest : rest \in Chunkings(From(body, k + 1)) } :
                 k \in 1..Len(body) }

RECURSIVE EncodeChunks(_)
EncodeChunks(chunks) ==
    IF chunks = <<>> THEN <<"0">> \o CRLF \o CRLF
    ELSE EncodeChunk(Head(chunks)) \o EncodeChunks(Tail(chunks))

\* the well-formed responses the origin server sends, with the body they carry
H1Responses ==
    { [wire |-> <<"H", "T", "T", "P", "/", "1", ".", "1", "SP", "2", "0", "0", "SP", "O", "K">> \o CRLF \o <<"C", "o", "n", "t", "e", "n", "t", "-", "L", "e", "n", "g", "t", "h", ":", "SP">>
                \o <<HexDigits[Len(body) + 1]>> \o CRLF \o CRLF \o body,
       body |-> body] : body \in H1Bodies }
    \cup
    { [wire |-> <<"H", "T", "T", "P", "/", "1", ".", "1", "SP", "2", "0", "0", "SP", "O", "K">> \o CRLF \o <<"T", "r", "a", "n", "s", "f", "e", "r", "-", "E", "n", "c", "o", "d", "i", "n", "g", ":", "SP", "c", "h", "u", "n", "k", "e", "d">>
                \o CRLF \o CRLF \o EncodeChunks(r.chunks),
       body |-> r.body] :
      r \in UNION { { [body |-> body, chunks |-> chunks] : chunks \in Chunkings(body) } :
                    body \in H1Bodies } }

\* one call of the client: its new state and the commands it returned
H1Call(result, what) ==
    /\ h1' = result.client
    /\ h1_commands' = h1_commands \o result.commands
    /\ h1_err' = result.err
    /\ h1_sent' = h1_sent \cup {what}

\* the driver starts the layer
H1Start ==
    /\ h1_sent = {}
    /\ H1Call(Http1HandleEvent(h1, [type |-> "Start"]), "Start")
    /\ UNCHANGED <<h1_wire, h1_pos, h1_body, notH1Vars>>

\* the HTTP stream hands the client the request: headers, data, end of message
H1SendRequestHeaders(request) ==
    /\ "Start" \in h1_sent
    /\ "RequestHeaders" \notin h1_sent
    /\ H1Call(SendEvent(h1, [type |-> "RequestHeaders", stream_id |-> 1,
                             request |-> request]),
              "RequestHeaders")
    /\ UNCHANGED <<h1_wire, h1_pos, h1_body, notH1Vars>>

H1SendRequestData ==
    /\ "RequestHeaders" \in h1_sent
    /\ "RequestData" \notin h1_sent
    /\ "RequestEndOfMessage" \notin h1_sent
    /\ H1Call(SendEvent(h1, [type |-> "RequestData", stream_id |-> 1, data |-> <<"x">>]),
              "RequestData")
    /\ UNCHANGED <<h1_wire, h1_pos, h1_body, notH1Vars>>

H1SendRequestEndOfMessage ==
    /\ "RequestHeaders" \in h1_sent
    /\ "RequestEndOfMessage" \notin h1_sent
    /\ H1Call(SendEvent(h1, [type |-> "RequestEndOfMessage", stream_id |-> 1]),
              "RequestEndOfMessage")
    /\ UNCHANGED <<h1_wire, h1_pos, h1_body, notH1Vars>>

\* the next k bytes of the response arrive in one DataReceived event
H1DataReceived(k) ==
    /\ "RequestHeaders" \in h1_sent
    /\ "ConnectionClosed" \notin h1_sent
    /\ k \in 1..(Len(h1_wire) - h1_pos)
    /\ H1Call(Http1HandleEvent(h1, [type |-> "DataReceived",
                                    data |-> Slice(h1_wire, h1_pos + 1, h1_pos + k)]),
              "DataReceived")
    /\ h1_pos' = h1_pos + k
    /\ UNCHANGED <<h1_wire, h1_body, notH1Vars>>

\* the server connection closes
H1ConnectionClosed ==
    /\ "Start" \in h1_sent
    /\ "ConnectionClosed" \notin h1_sent
    /\ H1Call(Http1HandleEvent(h1, [type |-> "ConnectionClosed"]), "ConnectionClosed")
    /\ UNCHANGED <<h1_wire, h1_pos, h1_body, notH1Vars>>

InitH1Vars ==
    /\ h1 = NewHttp1Client("Open")
    /\ h1_commands = <<>>
    /\ h1_err = FALSE
    /\ h1_sent = {}
    /\ h1_wire = <<>>
    /\ h1_pos = 0
    /\ h1_body = <<>>

InitH1Response ==
    /\ h1 \in { NewHttp1Client(st) : st \in {"Open", "Closed"} }
    /\ h1_commands = <<>>
    /\ h1_err = FALSE
    /\ h1_sent = {}
    /\ \E r \in H1Responses : h1_wire = r.wire /\ h1_body = r.body
    /\ h1_pos = 0

NextH1 ==
    \/ H1Start
    \/ \E request \in H1Requests : H1SendRequestHeaders(request)
    \/ H1SendRequestData
    \/ H1SendRequestEndOfMessage
    \/ \E k \in 1..Len(h1_wire) : H1DataReceived(k)
    \/ H1ConnectionClosed

IsReceiveHttp(command) == command.cmd = "ReceiveHttp"

\* the HTTP events the client has emitted, in order
H1Events ==
    LET received == SelectSeq(h1_commands, IsReceiveHttp)
    IN  [i \in 1..Len(received) |-> received[i].event]

\* C5: once every byte of a well-formed Content-Length or chunked response
\* has arrived, however it was split into DataReceived events, the client has
\* emitted ResponseHeaders, then ResponseData events whose payloads make up
\* the body, then exactly one ResponseEndOfMessage.
C5_ResponseFraming ==
    (h1_pos = Len(h1_wire) /\ "ConnectionClosed" \notin h1_sent)
    => LET evs == H1Events
           n == Len(evs)
       IN  /\ n >= 2
           /\ evs[1].type = "ResponseHeaders"
           /\ evs[n].type = "ResponseEndOfMessage"
           /\ \A i \in 2..(n - 1) : evs[i].type = "ResponseData"
           /\ Flatten([i \in 1..(n - 2) |-> evs[i + 1].data]) = h1_body

\* ------------------------------------------------------------------------
\* HTTP/1 request head: Http1Server::parse_request_head and
\* Http1Client::assemble_request_head  (proxy/layers/http.rs)
\* ------------------------------------------------------------------------

MaxHeaders == 2

\* url::Url::parse("http://example.com" + target): the path ends at the
\* first '?', what follows is the query
ParseUrl(target) ==
    LET q == Find(target, "?") IN
    IF IsSome(q)
    THEN [path |-> Slice(target, 1, Unwrap(q)),
          query |-> Some(From(target, Unwrap(q) + 2))]
    ELSE [path |-> target, query |-> NoneOpt]

\* ReceiveBuffer::maybe_extract_lines
MaybeExtractLines(buf) ==
    LET pos == FindWindow(buf, CRLF \o CRLF) IN
    IF IsSome(pos) THEN Some(SplitLines(Slice(buf, 1, Unwrap(pos) + 4)))
    ELSE NoneOpt

\* Http1Server::parse_request_head
ParseRequestHead(lines) ==
    IF lines = <<>> THEN [ok |-> FALSE, error |-> "Empty request"]
    ELSE LET parts == SplitWhitespace(lines[1]) IN
         IF Len(parts) # 3 THEN [ok |-> FALSE, error |-> "Invalid request line"]
         ELSE LET add(headers, line) ==
                      LET colon_pos == Find(line, ":") IN
                      IF IsSome(colon_pos)
                      THEN Insert(headers,
                                  ToLowercase(Trim(Slice(line, 1, Unwrap(colon_pos)))),
                                  Trim(From(line, Unwrap(colon_pos) + 2)))
                      ELSE headers
                  header_lines == Tail(lines)
                  upto[k \in 0..Len(header_lines)] ==
                      IF k = 0 THEN EmptyMap ELSE add(upto[k - 1], header_lines[k])
              IN  [ok |-> TRUE,
                   request |->
                       [method |-> parts[1],
                        url |-> ParseUrl(parts[2]),
                        version |-> parts[3],
                        headers |-> upto[Len(header_lines)]]]

\* the orders in which a HashMap may hand out its keys
Orders(keys) ==
    { order \in [1..Cardinality(keys) -> keys] :
        \A i, j \in 1..Cardinality(keys) : i # j => order[i] # order[j] }

\* Http1Client::assemble_request_head; <<"o", "r", "d", "e", "r">> is the iteration order of
\* request.headers
AssembleRequestHead(request, order) ==
    LET line(name) == name \o <<":", "SP">> \o request.headers[name] \o CRLF
        lines[k \in 0..Len(order)] ==
            IF k = 0 THEN <<>> ELSE lines[k - 1] \o line(order[k])
    IN  request.method \o <<"SP">> \o request.url.path \o <<"SP">>
            \o request.version \o CRLF \o lines[Len(order)] \o CRLF

\* the header list a request head carries on the wire, names in lower case
HeaderList(head) ==
    LET lines == Tail(SplitLines(head))
        entry(line) == LET colon_pos == Unwrap(Find(line, ":")) IN
                       <<ToLowercase(Trim(Slice(line, 1, colon_pos))),
                         Trim(From(line, colon_pos + 2))>>
    IN  [i \in 1..Len(lines) |-> entry(lines[i])]

\* well-formed request heads: a request line and up to MaxHeaders header
\* lines, a name possibly repeated
RtTargets == {<<"/">>, <<"/", "a", "?", "q">>}
RtHeaderLines == {<<"A", ":", "SP", "1">>, <<"A", ":", "SP", "2">>, <<"b", ":", "SP", "1">>, <<"c", ":", "SP", "1">>}
RtHeaderLists == UNION { [1..n -> RtHeaderLines] : n \in 0..MaxHeaders }
RtHead(target, headers) ==
    LET lines[k \in 0..Len(headers)] ==
            IF k = 0 THEN <<>> ELSE lines[k - 1] \o headers[k] \o CRLF
    IN  <<"G", "E", "T", "SP">> \o target \o <<"SP", "H", "T", "T", "P", "/", "1", ".", "1">> \o CRLF \o lines[Len(headers)] \o CRLF

\* the server reads the head the client sent
RtParse ==
    /\ rt_request = NoneOpt
    /\ LET lines == MaybeExtractLines(rt_wire) IN
       /\ IsSome(lines)
       /\ ParseRequestHead(Unwrap(lines)).ok
       /\ rt_request' = Some(ParseRequestHead(Unwrap(lines)).request)
    /\ UNCHANGED <<rt_wire, rt_assembled, rt_reparsed>>
    /\ UNCHANGED notRtVars

\* the client writes the parsed request for the upstream server
RtAssemble ==
    /\ IsSome(rt_request) /\ rt_assembled = NoneOpt
    /\ \E order \in Orders(DOMAIN Unwrap(rt_request).headers) :
           rt_assembled' = Some(AssembleRequestHead(Unwrap(rt_request), order))
    /\ UNCHANGED <<rt_wire, rt_request, rt_reparsed>>
    /\ UNCHANGED notRtVars

\* the assembled head is parsed again
RtReparse ==
    /\ IsSome(rt_assembled) /\ rt_reparsed = NoneOpt
    /\ LET lines == MaybeExtractLines(Unwrap(rt_assembled)) IN
       /\ IsSome(lines)
       /\ ParseRequestHead(Unwrap(lines)).ok
       /\ rt_reparsed' = Some(ParseRequestHead(Unwrap(lines)).request)
    /\ UNCHANGED <<rt_wire, rt_request, rt_assembled>>
    /\ UNCHANGED notRtVars

InitRtVars ==
    /\ rt_wire = RtHead(<<"/">>, <<>>)
    /\ rt_request = NoneOpt /\ rt_assembled = NoneOpt /\ rt_reparsed = NoneOpt

InitRtHead ==
    /\ \E target \in RtTargets, headers \in RtHeaderLists :
           rt_wire = RtHead(target, headers)
    /\ rt_request = NoneOpt /\ rt_assembled = NoneOpt /\ rt_reparsed = NoneOpt

NextRoundTrip == RtParse \/ RtAssemble \/ RtReparse

\* C11: a request head that is parsed, assembled and parsed again gives an
\* equal request, and the assembled head carries the header list of the
\* original in the same order, repeated names included.
C11_RoundTrip ==
    IsSome(rt_reparsed) =>
        /\ Unwrap(rt_reparsed) = Unwrap(rt_request)
        /\ HeaderList(Unwrap(rt_assembled)) = HeaderList(rt_wire)

\* ------------------------------------------------------------------------
\* NextLayer  (proxy/layer.rs)
\* ------------------------------------------------------------------------

MaxNextEvents == 3

\* the child's handle_event: a TcpLayer that nothing pauses
ChildHandleEvent(e) ==
    IF e.name = "DataReceived" THEN HandleDataReceived(e) ELSE <<>>

\* a replay that forgets the event at the head of the buffer
ProcessBufferedEventsSkipsHead(child, buffered) ==
    IF child = None THEN [delivered |-> <<>>, commands |-> <<>>, buffered |-> buffered]
    ELSE [delivered |-> Tail(buffered), commands |-> <<>>, buffered |-> <<>>]

\* NextLayer::process_buffered_events: drains the buffer into the child,
\* oldest event first, and collects the child's commands
ProcessBufferedEvents(child, buffered) ==
    IF child = None THEN [delivered |-> <<>>, commands |-> <<>>, buffered |-> buffered]
    ELSE LET cmds[k \in 0..Len(buffered)] ==
                 IF k = 0 THEN <<>> ELSE cmds[k - 1] \o ChildHandleEvent(buffered[k])
         IN  [delivered |-> buffered, commands |-> cmds[Len(buffered)],
              buffered |-> <<>>]

\* NextLayer::handle_event
NextLayerHandleEvent(e) ==
    /\ Len(nl_arrived) < MaxNextEvents
    /\ e \in ArrivingEvents(Len(nl_arrived) + 1)
    /\ nl_arrived' = Append(nl_arrived, e)
    /\ IF child_layer # None
       THEN /\ nl_delivered' = Append(nl_delivered, e)
            /\ nl_commands' = nl_commands \o ChildHandleEvent(e)
            /\ UNCHANGED <<child_layer, buffered_events, nl_replayed>>
       ELSE LET r == ProcessBufferedEvents("TcpLayer", Append(buffered_events, e)) IN
            /\ child_layer' = "TcpLayer"
            /\ buffered_events' = r.buffered
            /\ nl_delivered' = nl_delivered \o r.delivered
            /\ nl_replayed' = nl_replayed + Len(r.delivered)
            /\ nl_commands' = nl_commands \o r.commands
    /\ UNCHANGED notNextLayerVars

InitNextLayerVars ==
    /\ child_layer = None
    /\ buffered_events = <<>>
    /\ nl_arrived = <<>>
    /\ nl_delivered = <<>>
    /\ nl_replayed = 0
    /\ nl_commands = <<>>

NextNextLayer ==
    \E e \in ArrivingEvents(Len(nl_arrived) + 1) : NextLayerHandleEvent(e)

\* C13: every event given to NextLayer reaches the child it selected exactly
\* once and in arrival order, the events buffered before the child was
\* chosen first: the child has been given exactly the events that arrived,
\* in their order, and nothing stays in the buffer.
C13_ChildGetsEveryEventInOrder ==
    /\ nl_delivered = nl_arrived
    /\ buffered_events = <<>>

\* an event was buffered and replayed, and later events followed it
C13_Witness ==
    /\ nl_replayed = 1
    /\ Len(nl_arrived) = MaxNextEvents
    /\ nl_delivered = nl_arrived
    /\ \E i \in 1..Len(nl_commands) : nl_commands[i].seq = 1

\* ------------------------------------------------------------------------
\* Tunnel layers  (proxy/tunnel.rs, proxy/layers/tls.rs)
\* ------------------------------------------------------------------------

MaxTunnelEvents == 4

TunnelKinds == {"TunnelLayer", "ClientTlsLayer", "ServerTlsLayer"}

TunnelStates == <<"Inactive", "Establishing", "Open", "Closed">>

\* position of a state in TunnelState's declaration order
StateRank(state) == CHOOSE i \in 1..Len(TunnelStates) : TunnelStates[i] = state

\* what a DataReceived on the tunnel connection may carry: a whole
\* ClientHello, a piece of one, or more than 16384 bytes of something else
TunnelData == {"ClientHello", "Fragment", "Oversized"}

TunnelEvent(name, conn, data, n) ==
    [name |-> name, connection |-> conn, data |-> data, seq |-> n]

TunnelArrivingEvents(n) ==
    { TunnelEvent("DataReceived", c, d, n) :
          c \in {"tunnel", "other"}, d \in TunnelData }
      \cup { TunnelEvent("ConnectionClosed", c, "", n) : c \in {"tunnel", "other"} }

Command(name, conn) == [cmd |-> name, connection |-> conn]

\* what a call on the layer gives back: the layer, the commands returned,
\* the events its child was given, whether the handshake was seen to fail
Outcome(t, cmds, delivered, failed) ==
    [t |-> t, commands |-> cmds, delivered |-> delivered, failed |-> failed]

\* TunnelLayer::new; TlsLayerBase::new gives the tunnel a NextLayer child.
\* child_opens says whether the layer put into the public field child_layer
\* is one that asks for the tunnel's connection when it is given data
NewTunnel(kind, reply) ==
    [kind |-> kind,
     child_opens |-> FALSE,
     tunnel_state |-> "Inactive",
     command_to_reply_to |-> reply,
     event_queue |-> <<>>,
     has_child |-> kind # "TunnelLayer",
     recv_buffer |-> <<>>,
     client_hello_parsed |-> FALSE,
     wait_for_clienthello |-> FALSE,
     handshake_complete |-> FALSE,
     ssl_connection |-> FALSE]

\* the commands the tunnel's child returns for an event
TunnelChildHandleEvent(t, event) ==
    ChildHandleEvent(event)
        \o IF t.child_opens /\ event.name = "DataReceived"
           THEN << Command("OpenConnection", "conn") >>
           ELSE <<>>

\* TunnelLayer::on_handshake_error
OnHandshakeError == << Command("CloseConnection", "tunnel") >>

\* TunnelLayer::receive_data and TunnelLayer::receive_close: the child gets
\* the event under the tunnel's inner connection
ReceiveForChild(t, event) ==
    IF t.has_child
    THEN Outcome(t, TunnelChildHandleEvent(t, event),
                 <<[event EXCEPT !.connection = "conn"]>>, FALSE)
    ELSE Outcome(t, <<>>, <<>>, FALSE)

\* TunnelLayer::event_to_child_sync
EventToChildSync(t, event) ==
    IF t.tunnel_state = "Establishing" /\ t.command_to_reply_to = NoneOpt
    THEN Outcome([t EXCEPT !.event_queue = Append(t.event_queue, event)],
                 <<>>, <<>>, FALSE)
    ELSE IF t.has_child
         THEN Outcome(t, TunnelChildHandleEvent(t, event), <<event>>, FALSE)
         ELSE Outcome(t, <<>>, <<>>, FALSE)

\* a failed handshake that puts the tunnel back to Inactive
HandshakeFinishedStartsOver(t, err, n) ==
    Outcome([t EXCEPT !.tunnel_state = IF IsSome(err) THEN "Inactive" ELSE "Open",
                      !.command_to_reply_to = NoneOpt,
                      !.event_queue = <<>>],
            <<>>, <<>>, IsSome(err))

\* TunnelLayer::handshake_finished
HandshakeFinished(t, err, n) ==
    LET state == IF IsSome(err) THEN "Closed" ELSE "Open" IN
    IF IsSome(t.command_to_reply_to)
    THEN LET t1 == [t EXCEPT !.tunnel_state = state,
                             !.command_to_reply_to = NoneOpt]
             event == [name |-> "OpenConnectionCompleted",
                       command |-> Unwrap(t.command_to_reply_to),
                       error |-> err, seq |-> n]
         IN  IF t.has_child
             THEN Outcome(t1, TunnelChildHandleEvent(t1, event), <<event>>, IsSome(err))
             ELSE Outcome(t1, <<>>, <<>>, IsSome(err))
    ELSE \* the queue is emptied; the events taken from it go nowhere
         Outcome([t EXCEPT !.tunnel_state = state, !.event_queue = <<>>],
                 <<>>, <<>>, IsSome(err))

\* TunnelLayer::handle_event
TunnelHandleEvent(t, event) ==
    IF event.name = "Start"
    THEN EventToChildSync([t EXCEPT !.tunnel_state = "Establishing"], event)
    ELSE IF event.name = "DataReceived" /\ event.connection = "tunnel"
    THEN IF t.tunnel_state = "Establishing"
         THEN Outcome(t, <<>>, <<>>, FALSE)
         ELSE ReceiveForChild(t, event)
    ELSE IF event.name = "ConnectionClosed" /\ event.connection = "tunnel"
    THEN IF t.tunnel_state = "Open" THEN ReceiveForChild(t, event)
         ELSE IF t.tunnel_state = "Establishing"
         THEN LET r == HandshakeFinished(t, Some("connection closed"), event.seq)
              IN  Outcome(r.t, OnHandshakeError \o r.commands, r.delivered, TRUE)
         ELSE EventToChildSync([t EXCEPT !.tunnel_state = "Closed"], event)
    ELSE EventToChildSync(t, event)

\* ClientTlsLayer::on_client_handshake_error
OnClientHandshakeError(err) ==
    IF err = "connection closed early" THEN <<>>
    ELSE << Command("Log", "tunnel"), Command("TlsFailedClientHook", "tunnel") >>
             \o OnHandshakeError

\* parse_client_hello on the bytes received so far
ParseClientHello(recv_buffer) ==
    \E i \in 1..Len(recv_buffer) : recv_buffer[i] = "ClientHello"

\* the ClientHelloData parse_client_hello returns for a ClientHello: every
\* one of its returns sets both flags to false
ClientHelloData == [ignore_connection |-> FALSE, establish_server_tls_first |-> FALSE]

\* ClientTlsLayer::receive_client_hello; create_client_ssl_context always
\* fails, and so does init_tls_for_hostname, and the error return drops the
\* vector that holds the TlsClienthelloHook
ReceiveClientHello(t, data) ==
    IF t.client_hello_parsed
    THEN Outcome(t, << Command("Log", "tunnel") >>, <<>>, FALSE)
    ELSE LET buf == Append(t.recv_buffer, data)
             t1 == [t EXCEPT !.recv_buffer = buf]
             hook == << Command("TlsClienthelloHook", "tunnel") >>
         IN  IF ParseClientHello(buf)
             THEN IF ClientHelloData.ignore_connection
                  THEN Outcome([t1 EXCEPT !.client_hello_parsed = TRUE,
                                          !.tunnel_state = "Open",
                                          !.recv_buffer = <<>>],
                               hook \o << Command("SendData", "tunnel") >>,
                               <<>>, FALSE)
                  ELSE Outcome([t1 EXCEPT !.client_hello_parsed = TRUE],
                               OnClientHandshakeError("Failed to initialize TLS"),
                               <<>>, TRUE)
             ELSE IF \E i \in 1..Len(buf) : buf[i] = "Oversized"
             THEN Outcome(t1, OnClientHandshakeError("Cannot parse ClientHello"),
                          <<>>, TRUE)
             ELSE Outcome(t1, <<>>, <<>>, FALSE)

\* ClientTlsLayer::handle_event
ClientTlsHandleEvent(t, event) ==
    IF event.name = "Start"
    THEN EventToChildSync([t EXCEPT !.tunnel_state = "Establishing"], event)
    ELSE IF event.name = "DataReceived" /\ event.connection = "tunnel"
    THEN IF t.tunnel_state = "Establishing"
         THEN LET r == ReceiveClientHello(t, event.data) IN
              IF r.t.client_hello_parsed
              THEN Outcome([r.t EXCEPT !.tunnel_state = "Open",
                                       !.handshake_complete = TRUE],
                           r.commands \o << Command("TlsEstablishedClientHook", "tunnel") >>,
                           r.delivered, r.failed)
              ELSE r
         ELSE ReceiveForChild(t, event)
    ELSE IF event.name = "ConnectionClosed" /\ event.connection = "tunnel"
    THEN IF t.tunnel_state = "Establishing"
         THEN Outcome(t, OnClientHandshakeError("connection closed"), <<>>, TRUE)
         ELSE ReceiveForChild(t, event)
    ELSE EventToChildSync(t, event)

\* ServerTlsLayer::has_client_tls_child: the child is the NextLayer that
\* TlsLayerBase::new made
HasClientTlsChild(t) == FALSE

\* ServerTlsLayer::start_handshake; ssl_ok says whether OpenSSL gave a
\* context and a connection
StartHandshake(t, ssl_ok) ==
    IF t.command_to_reply_to = NoneOpt /\ HasClientTlsChild(t)
    THEN Outcome([t EXCEPT !.wait_for_clienthello = TRUE,
                           !.tunnel_state = "Closed"], <<>>, <<>>, FALSE)
    ELSE IF ~ssl_ok
    THEN Outcome(t, << Command("Log", "tunnel") >>, <<>>, FALSE)
    ELSE \* start_tls finds the connection init_server_tls has just made
         Outcome([t EXCEPT !.ssl_connection = TRUE],
                 << Command("Log", "tunnel") >>, <<>>, FALSE)

\* ServerTlsLayer::handle_event
ServerTlsHandleEvent(t, event, ssl_ok) ==
    IF event.name = "Start" THEN StartHandshake(t, ssl_ok)
    ELSE IF event.name = "DataReceived" /\ event.connection = "tunnel"
            /\ t.tunnel_state = "Establishing"
    THEN IF t.handshake_complete
         THEN LET r == ReceiveForChild(t, event) IN
              Outcome([r.t EXCEPT !.tunnel_state = "Open"],
                      << Command("TlsEstablishedServerHook", "tunnel") >> \o r.commands,
                      r.delivered, FALSE)
         ELSE Outcome(t, IF t.ssl_connection THEN <<>>
                         ELSE << Command("Log", "tunnel") >>, <<>>, FALSE)
    ELSE IF event.name = "DataReceived" /\ event.connection = "tunnel"
            /\ t.tunnel_state = "Open"
    THEN ReceiveForChild(t, event)
    ELSE IF event.name = "ConnectionClosed" /\ event.connection = "tunnel"
    THEN IF t.tunnel_state = "Establishing"
         THEN Outcome(t, << Command("Log", "tunnel"),
                            Command("TlsFailedServerHook", "tunnel") >>
                             \o OnHandshakeError, <<>>, TRUE)
         ELSE ReceiveForChild(t, event)
    ELSE IF t.wait_for_clienthello
    THEN LET r == EventToChildSync(t, event)
             opens(command) == command = Command("OpenConnection", "conn")
             passes(command) == ~opens(command)
             found_open_connection == SelectSeq(r.commands, opens) # <<>>
             filtered_commands == SelectSeq(r.commands, passes)
         IN  IF found_open_connection
             THEN \* init_server_tls, then start_tls, which finds the
                  \* connection init_server_tls has just made
                  Outcome([r.t EXCEPT !.wait_for_clienthello = FALSE,
                                      !.ssl_connection = (@ \/ ssl_ok)],
                          Append(filtered_commands, Command("Log", "tunnel")),
                          r.delivered, FALSE)
             ELSE Outcome(r.t, filtered_commands, r.delivered, FALSE)
    ELSE EventToChildSync(t, event)

\* Layer::handle_event of the layer that was built
LayerHandleEvent(t, event, ssl_ok) ==
    IF t.kind = "TunnelLayer" THEN TunnelHandleEvent(t, event)
    ELSE IF t.kind = "ClientTlsLayer" THEN ClientTlsHandleEvent(t, event)
    ELSE ServerTlsHandleEvent(t, event, ssl_ok)

TunnelCall(event, r) ==
    /\ tunnel' = r.t
    /\ tn_arrived' = Append(tn_arrived, event)
    /\ tn_held' = IF Len(r.t.event_queue) > Len(tunnel.event_queue)
                  THEN Append(tn_held, event) ELSE tn_held
    /\ tn_child_events' = tn_child_events \o r.delivered
    /\ tn_commands' = tn_commands \o r.commands
    /\ tn_failed' = (tn_failed \/ r.failed)
    /\ tn_swallowed' = (tn_swallowed \/ (tunnel.wait_for_clienthello
                                          /\ ~r.t.wait_for_clienthello))
    /\ UNCHANGED notTunnelVars

\* the driver starts the layer: Start is the first event, and comes once
TunnelStart(ssl_ok) ==
    /\ tn_arrived = <<>>
    /\ TunnelCall(TunnelEvent("Start", "none", "", 1),
                  LayerHandleEvent(tunnel, TunnelEvent("Start", "none", "", 1), ssl_ok))

\* the driver delivers a later event
TunnelDeliver(event) ==
    /\ tn_arrived # <<>>
    /\ Len(tn_arrived) < MaxTunnelEvents
    /\ event \in TunnelArrivingEvents(Len(tn_arrived) + 1)
    /\ TunnelCall(event, LayerHandleEvent(tunnel, event, TRUE))

InitTunnelVars ==
    /\ tunnel = NewTunnel("TunnelLayer", NoneOpt)
    /\ tn_arrived = <<>> /\ tn_held = <<>> /\ tn_child_events = <<>>
    /\ tn_commands = <<>> /\ tn_failed = FALSE /\ tn_swallowed = FALSE

\* the layer is one of the three kinds; whoever builds it says, through
\* the public field command_to_reply_to, whether the tunnel answers a
\* blocking OpenConnection of its child
InitTunnelLayer ==
    /\ \E kind \in TunnelKinds, reply \in {NoneOpt, Some("OpenConnection")} :
           \/ tunnel = NewTunnel(kind, reply)
           \/ /\ kind = "ServerTlsLayer" /\ reply = NoneOpt
              /\ tunnel = [NewTunnel(kind, reply) EXCEPT
                               !.wait_for_clienthello = TRUE,
                               !.tunnel_state = "Closed",
                               !.child_opens = TRUE]
    /\ tn_arrived = <<>> /\ tn_held = <<>> /\ tn_child_events = <<>>
    /\ tn_commands = <<>> /\ tn_failed = FALSE /\ tn_swallowed = FALSE

NextTunnel ==
    \/ \E ssl_ok \in BOOLEAN : TunnelStart(ssl_ok)
    \/ \E event \in TunnelArrivingEvents(Len(tn_arrived) + 1) : TunnelDeliver(event)

\* C14: events for the child that arrive while the tunnel is Establishing
\* are held in its queue, and once the tunnel is Open every held event has
\* been given to the child and the queue is empty.
C14_HeldEventsReachChild ==
    tunnel.tunnel_state = "Open" =>
        /\ tunnel.event_queue = <<>>
        /\ \A i \in 1..Len(tn_held) :
               \E j \in 1..Len(tn_child_events) : tn_child_events[j] = tn_held[i]

\* the OpenConnectionCompleted events the child was given that carry an error
ErrorReplies ==
    { j \in 1..Len(tn_child_events) :
          /\ tn_child_events[j].name = "OpenConnectionCompleted"
          /\ IsSome(tn_child_events[j].error) }

\* the tunnel was built to answer a blocking OpenConnection
Replying ==
    IsSome(tunnel.command_to_reply_to) \/ ErrorReplies # {}

C16_StateOnlyAdvances ==
    [][/\ StateRank(tunnel'.tunnel_state) >= StateRank(tunnel.tunnel_state)
       /\ (tunnel.tunnel_state = "Closed" => tunnel'.tunnel_state = "Closed")]_vars

\* a tunnel went from Inactive through Establishing to Closed and was given
\* further events there
C16_Witness ==
    /\ tunnel.tunnel_state = "Closed"
    /\ Len(tn_arrived) = MaxTunnelEvents
    /\ tn_arrived[2].name = "ConnectionClosed"
    /\ tn_arrived[2].connection = "tunnel"

\* ------------------------------------------------------------------------
\* Root CA at startup: CertificateAuthority::new  (certs.rs)
\* ------------------------------------------------------------------------

MaxStartups == 5

CertDirs == {"dir1", "dir2"}

\* a directory with neither file, with the certificate only, or with the
\* certificate and the .p12 that another mitmproxy installation left there
NoFiles == [cert_pem |-> NoneOpt, p12 |-> NoneOpt]
CertOnly == [cert_pem |-> Some(0), p12 |-> NoneOpt]
BothFiles == [cert_pem |-> Some(0), p12 |-> Some(0)]

\* CertificateAuthority::generate_ca_cert: a fresh RSA key and a random
\* serial, so the n-th generated CA differs from every earlier one
GenerateCaCert(n) == [cert |-> n, key |-> n]

\* CertificateAuthority::load_ca_cert: reads neither file
LoadCaCert(files, n) == GenerateCaCert(n)

\* CertificateAuthority::save_ca_cert: writes the certificate, not the key
SaveCaCert(files, pair) == [files EXCEPT !.cert_pem = Some(pair.cert)]

\* CertificateAuthority::new
NewCertificateAuthority(files, n) ==
    IF IsSome(files.cert_pem) /\ IsSome(files.p12)
    THEN [pair |-> LoadCaCert(files, n), files |-> files, saved |-> FALSE]
    ELSE [pair |-> GenerateCaCert(n),
          files |-> SaveCaCert(files, GenerateCaCert(n)), saved |-> TRUE]

\* the proxy starts (again) on a certificate directory
Startup(dir) ==
    /\ ca_generated < MaxStartups
    /\ LET r == NewCertificateAuthority(ca_files[dir], ca_generated + 1) IN
       /\ ca' = Some([cert |-> r.pair.cert, key |-> r.pair.key, cert_dir |-> dir])
       /\ ca_files' = [ca_files EXCEPT ![dir] = r.files]
       /\ ca_persisted' =
              IF r.saved /\ ca_persisted[dir] = NoneOpt
              THEN [ca_persisted EXCEPT ![dir] = Some(r.pair)]
              ELSE ca_persisted
    /\ ca_generated' = ca_generated + 1
    /\ UNCHANGED notCaVars

InitCaVars ==
    /\ ca_files = [dir \in CertDirs |-> NoFiles]
    /\ ca = NoneOpt
    /\ ca_generated = 0
    /\ ca_persisted = [dir \in CertDirs |-> NoneOpt]

InitCaDirs ==
    /\ ca_files \in [CertDirs -> {NoFiles, CertOnly, BothFiles}]
    /\ ca = NoneOpt
    /\ ca_generated = 0
    /\ ca_persisted = [dir \in CertDirs |-> NoneOpt]

NextCa == \E dir \in CertDirs : Startup(dir)

\* C17: once a root certificate and key have been generated and saved in a
\* directory, the CA of every process started on that directory has that
\* certificate and that key.
C17_RestartKeepsRootCa ==
    IsSome(ca) /\ IsSome(ca_persisted[Unwrap(ca).cert_dir]) =>
        /\ Unwrap(ca).cert = Unwrap(ca_persisted[Unwrap(ca).cert_dir]).cert
        /\ Unwrap(ca).key = Unwrap(ca_persisted[Unwrap(ca).cert_dir]).key

\* ------------------------------------------------------------------------
\* Connection driver: ProxyServer::handle_connection  (proxy/server.rs)
\* ------------------------------------------------------------------------

MaxCommands == 3

\* Command::command_name of the commands a layer can put in its generator
CommandNames == {"Log", "SendData", "OpenConnection", "CloseConnection"}

\* the generators root_layer.handle_event(Start) can return: up to
\* MaxCommands commands, each tagged with its position
Generators ==
    UNION { { [i \in 1..k |-> [name |-> names[i], id |-> i]] :
                names \in [1..k -> CommandNames] } : k \in 0..MaxCommands }

\* handle_connection up to the loop: builds the context and the root layer
\* and gives the layer its Start event
DriverStart(generator) ==
    /\ dr_pc = "start"
    /\ dr_pc' = "loop"
    /\ dr_generator' = generator
    /\ dr_delivered' = Append(dr_delivered, [name |-> "Start"])
    /\ UNCHANGED dr_taken
    /\ UNCHANGED notDriverVars

\* one turn of <<"w", "h", "i", "l", "e", "SP", "l", "e", "t", "SP", "S", "o", "m", "e", "(", "c", "o", "m", "m", "a", "n", "d", ")", "SP", "=", "SP", "g", "e", "n", "e", "r", "a", "t", "o", "r", ".", "n", "e", "x", "t", "_", "c", "o", "m", "m", "a", "n", "d", "(", ")">>: the
\* command is logged and nothing else is done with it
DriverNextCommand ==
    /\ dr_pc = "loop"
    /\ dr_generator # <<>>
    /\ dr_taken' = Append(dr_taken, Head(dr_generator))
    /\ dr_generator' = Tail(dr_generator)
    /\ UNCHANGED <<dr_pc, dr_delivered>>
    /\ UNCHANGED notDriverVars

\* next_command() gives None: handle_connection returns Ok(())
DriverReturn ==
    /\ dr_pc = "loop"
    /\ dr_generator = <<>>
    /\ dr_pc' = "returned"
    /\ UNCHANGED <<dr_generator, dr_taken, dr_delivered>>
    /\ UNCHANGED notDriverVars

InitDriverVars ==
    /\ dr_pc = "start"
    /\ dr_generator = <<>>
    /\ dr_taken = <<>>
    /\ dr_delivered = <<>>

NextDriver ==
    \/ \E generator \in Generators : DriverStart(generator)
    \/ DriverNextCommand
    \/ DriverReturn

\* the OpenConnectionCompleted events given to the layer for command id
CompletionsOf(id) ==
    { j \in 1..Len(dr_delivered) :
          /\ dr_delivered[j].name = "OpenConnectionCompleted"
          /\ dr_delivered[j].command = id }

IsCloseConnection(command) == command.cmd = "CloseConnection"

IsSendData(command) == command.cmd = "SendData"

\* the request head the client has sent upstream: its first SendData
SentRequestHead == SelectSeq(h1_commands, IsSendData)[1].data.request_head

\* the request has been sent to its end and the response received to its
\* end, on a connection that is still open. The responses of this model
\* are HTTP/1.1 without Connection: close, framed by Content-Length or
\* chunked.
PairCompleted ==
    /\ "RequestEndOfMessage" \in h1_sent
    /\ "ConnectionClosed" \notin h1_sent
    /\ ~h1_err
    /\ \E i \in 1..Len(H1Events) : H1Events[i].type = "ResponseEndOfMessage"

\* C20: after a request/response pair that allows keep-alive has completed,
\* the client has emitted no CloseConnection, holds no request and no
\* response, has both done flags cleared and is back in ReadHeaders.
C20_KeepAliveReset ==
    PairCompleted /\ SentRequestHead.version = <<"H", "T", "T", "P", "/", "1", ".", "1">> =>
        /\ SelectSeq(h1_commands, IsCloseConnection) = <<>>
        /\ h1.request = NoneOpt /\ h1.response = NoneOpt
        /\ ~h1.request_done /\ ~h1.response_done
        /\ h1.state = "ReadHeaders"

\* ------------------------------------------------------------------------
\* HTTP/1 server side: proxy/layers/http.rs Http1Server
\* ------------------------------------------------------------------------

\* the commands the server returns for the client connection
ClientCloseConnection == [cmd |-> "CloseConnection", connection |-> "client"]

ClientSendData(data) == [cmd |-> "SendData", connection |-> "client", data |-> data]

RequestHeaders(stream_id, request, end_stream) ==
    [type |-> "RequestHeaders", stream_id |-> stream_id, request |-> request,
     end_stream |-> end_stream]

RequestData(stream_id, data) ==
    [type |-> "RequestData", stream_id |-> stream_id, data |-> data]

RequestEndOfMessage(stream_id) ==
    [type |-> "RequestEndOfMessage", stream_id |-> stream_id]

RequestProtocolError(stream_id, msg) ==
    [type |-> "RequestProtocolError", stream_id |-> stream_id,
     message |-> msg, code |-> "GenericClientError"]

\* ErrorCode::http_status_code
HttpStatusCode(code) ==
    CASE code \in {"GenericClientError", "RequestValidationFailed",
                   "DestinationUnknown"} -> Some(400)
      [] code = "RequestTooLarge" -> Some(413)
      [] code \in {"ConnectFailed", "GenericServerError",
                   "ResponseValidationFailed", "ResponseTooLarge"} -> Some(502)
      [] OTHER -> NoneOpt

\* Http1Server::make_error_response: the response it renders, by its status
\* and the message of its body
MakeErrorResponse(status_code, msg) ==
    [error_response |-> [status_code |-> status_code, message |-> msg]]

\* Http1Server::calculate_expected_body_size: Content-Length is looked at
\* first; None stands for Err("Invalid Content-Length header")
CalculateExpectedBodySize(request) ==
    IF <<"c", "o", "n", "t", "e", "n", "t", "-", "l", "e", "n", "g", "t", "h">> \in DOMAIN request.headers
    THEN LET n == ParseU64(request.headers[<<"c", "o", "n", "t", "e", "n", "t", "-", "l", "e", "n", "g", "t", "h">>])
         IN  IF IsSome(n) THEN Some(Sized(Unwrap(n))) ELSE NoneOpt
    ELSE IF IsChunkedEncodingRequest(request) THEN Some(Chunked)
    ELSE Some(Sized(0))

\* Http1Server::make_pipe: buffered data is left where it is
ServerMakePipe(s) == Ok([s EXCEPT !.state = "Passthrough"], <<>>)

\* Http1Server::mark_done
ServerMarkDone(s, request, response) ==
    LET s1 == [s EXCEPT !.request_done = s.request_done \/ request,
                        !.response_done = s.response_done \/ response]
        reset == [s1 EXCEPT !.request_done = FALSE, !.response_done = FALSE,
                            !.request = NoneOpt, !.response = NoneOpt,
                            !.stream_id = s1.stream_id + 2,
                            !.state = "ReadHeaders"]
    IN  IF s1.request_done /\ s1.response_done
        THEN IF IsSome(s1.request) /\ IsSome(s1.response)
                /\ ShouldMakePipe(Unwrap(s1.request), Unwrap(s1.response))
             THEN ServerMakePipe(s1)
             ELSE IF IsSome(s1.request) /\ IsSome(s1.response)
                     /\ ShouldCloseConnection(Unwrap(s1.request), Unwrap(s1.response))
             THEN Ok([s1 EXCEPT !.state = "Done"], <<ClientCloseConnection>>)
             ELSE Ok(reset, <<>>)
        ELSE IF s1.request_done /\ ~s1.response_done
        THEN Ok([s1 EXCEPT !.state = "Wait"], <<>>)
        ELSE Ok(s1, <<>>)

\* Http1Server::send_event
ServerSendEvent(s, event) ==
    CASE event.type = "ResponseHeaders" ->
           Ok([s EXCEPT !.response = Some(event.response)],
              <<ClientSendData(
                    [response_head |->
                        IF event.response.version \in {<<"H", "T", "T", "P", "/", "2">>, <<"H", "T", "T", "P", "/", "3">>}
                        THEN [event.response EXCEPT !.version = <<"H", "T", "T", "P", "/", "1", ".", "1">>]
                        ELSE event.response])>>)
      [] event.type = "ResponseData" ->
           LET raw_data ==
                   IF s.response = NoneOpt THEN <<>>
                   ELSE IF IsChunkedEncodingRequest(Unwrap(s.response))
                   THEN EncodeChunk(event.data)
                   ELSE event.data
           IN  Ok(s, IF raw_data # <<>> THEN <<ClientSendData(raw_data)>> ELSE <<>>)
      [] event.type = "ResponseEndOfMessage" ->
           After(IF /\ IsSome(s.request) /\ IsSome(s.response)
                    /\ ToUppercase(Unwrap(s.request).method) # <<"H", "E", "A", "D">>
                    /\ IsChunkedEncodingRequest(Unwrap(s.response))
                 THEN <<ClientSendData(<<"0">> \o CRLF \o CRLF)>>
                 ELSE <<>>,
                 ServerMarkDone(s, FALSE, TRUE))
      [] event.type = "ResponseProtocolError" ->
           Ok(s, (IF IsSome(HttpStatusCode(event.code)) /\ s.response = NoneOpt
                  THEN <<ClientSendData(MakeErrorResponse(
                             Unwrap(HttpStatusCode(event.code)), event.message))>>
                  ELSE <<>>)
                 \o <<ClientCloseConnection>>)
      [] OTHER -> Err(s)

\* Http1Server::read_headers
ServerReadHeaders(s, event) ==
    CASE event.type = "DataReceived" ->
           LET buf == s.buf \o event.data
               pos == FindWindow(buf, CRLF \o CRLF)
           IN  IF pos = NoneOpt THEN Ok([s EXCEPT !.buf = buf], <<>>)
               ELSE LET head == ParseRequestHead(Unwrap(MaybeExtractLines(buf)))
                        s1 == [s EXCEPT !.buf = From(buf, Unwrap(pos) + 5)]
                    IN  IF head.ok
                        THEN LET s2 == [s1 EXCEPT !.request = Some(head.request)]
                                 size == CalculateExpectedBodySize(head.request)
                             IN  IF size = NoneOpt THEN Err(s2)
                                 ELSE Ok([s2 EXCEPT !.state = "ReadBody"],
                                         <<ReceiveHttp(RequestHeaders(
                                               s.stream_id, head.request,
                                               Unwrap(size) = Sized(0)))>>)
                        ELSE Ok(s1, <<ClientSendData(MakeErrorResponse(400, head.error)),
                                      ClientCloseConnection>>)
      [] event.type = "ConnectionClosed" -> Ok(s, <<ClientCloseConnection>>)
      [] OTHER -> Ok(s, <<>>)

\* Http1Server::read_chunked_body, the loop with the commands so far
RECURSIVE ReadChunkedBody(_, _)
ReadChunkedBody(s, cmds) ==
    LET line_end == FindWindow(s.buf, CRLF) IN
    IF line_end = NoneOpt THEN Ok(s, cmds)
    ELSE LET chunk_size == ParseHex(Trim(Slice(s.buf, 1, Unwrap(line_end))))
             s1 == [s EXCEPT !.buf = From(s.buf, Unwrap(line_end) + 3)]
         IN  IF chunk_size = NoneOpt
             THEN Ok(s1, <<ReceiveHttp(RequestProtocolError(
                               s.stream_id, "Invalid chunk size"))>>)
             ELSE IF Unwrap(chunk_size) = 0
             THEN LET trailer_end == FindWindow(s1.buf, CRLF \o CRLF)
                      s2 == IF IsSome(trailer_end)
                            THEN [s1 EXCEPT !.buf = From(@, Unwrap(trailer_end) + 5)]
                            ELSE s1
                  IN  After(Append(cmds, ReceiveHttp(RequestEndOfMessage(s.stream_id))),
                            ServerMarkDone(s2, TRUE, FALSE))
             ELSE IF Len(s1.buf) >= Unwrap(chunk_size) + 2
             THEN LET n == Unwrap(chunk_size) IN
                  ReadChunkedBody(
                      [s1 EXCEPT !.buf = From(@, n + 3)],
                      Append(cmds, ReceiveHttp(RequestData(s.stream_id,
                                                           Slice(s1.buf, 1, n)))))
             ELSE Ok(s1, cmds)

\* Http1Server::read_content_length_body
ReadContentLengthBody(s, expected_size) ==
    IF Len(s.buf) >= expected_size
    THEN After(<<ReceiveHttp(RequestData(s.stream_id, Slice(s.buf, 1, expected_size))),
                 ReceiveHttp(RequestEndOfMessage(s.stream_id))>>,
               ServerMarkDone([s EXCEPT !.buf = From(@, expected_size + 1)],
                              TRUE, FALSE))
    ELSE Ok(s, <<>>)

\* Http1Server::read_body
ServerReadBody(s, event) ==
    CASE event.type = "DataReceived" /\ IsSome(s.request) ->
           LET s1 == [s EXCEPT !.buf = @ \o event.data]
               size == CalculateExpectedBodySize(Unwrap(s.request))
           IN  IF size = NoneOpt THEN Err(s1)
               ELSE IF size = Some(Sized(0)) THEN ServerMarkDone(s1, TRUE, FALSE)
               ELSE IF size = Some(Chunked) THEN ReadChunkedBody(s1, <<>>)
               ELSE ReadContentLengthBody(s1, Unwrap(size).n)
      [] event.type = "ConnectionClosed" ->
           LET size == IF IsSome(s.request)
                       THEN CalculateExpectedBodySize(Unwrap(s.request))
                       ELSE Some(Sized(0))
           IN  IF size = NoneOpt THEN Err(s)
               ELSE IF IsSome(s.request) /\ size \in {Some(Chunked), Some(UntilEof)}
               THEN IF s.buf # <<>>
                    THEN Ok([s EXCEPT !.buf = <<>>],
                            <<ReceiveHttp(RequestData(s.stream_id, s.buf))>>)
                    ELSE ServerMarkDone(s, TRUE, FALSE)
               ELSE Ok(s, <<ClientCloseConnection>>)
      [] OTHER -> Ok(s, <<>>)

\* the server's events by its state, as Http1Client::handle_event dispatches
\* them: Http1Server's own handle_event is a placeholder that returns no
\* commands, and read_headers and read_body are what it stands in for
Http1ServerHandleEvent(s, event) ==
    CASE s.state = "Start" ->
           IF event.type = "Start" THEN Ok([s EXCEPT !.state = "ReadHeaders"], <<>>)
           ELSE Ok(s, <<>>)
      [] s.state = "ReadHeaders" -> ServerReadHeaders(s, event)
      [] s.state = "ReadBody" -> ServerReadBody(s, event)
      [] OTHER -> Ok(s, <<>>)

\* Http1Server::new
NewHttp1Server ==
    [stream_id |-> 1, request |-> NoneOpt, response |-> NoneOpt,
     request_done |-> FALSE, response_done |-> FALSE, buf |-> <<>>,
     state |-> "Start"]

\* what the client sends: two pipelined requests, a request with a
\* Content-Length body, a chunked body, a chunked body with a malformed
\* chunk-size line, a request line of two words, a Content-Length that is
\* no number, and an upgrade request followed by bytes of the new protocol
SrvWires ==
    { <<"G", "E", "T", "SP", "/", "SP", "H", "T", "T", "P", "/", "1", ".", "1">> \o CRLF \o CRLF \o <<"G", "E", "T", "SP", "/", "SP", "H", "T", "T", "P", "/", "1", ".", "1">> \o CRLF \o CRLF,
      <<"P", "O", "S", "T", "SP", "/", "SP", "H", "T", "T", "P", "/", "1", ".", "1">> \o CRLF \o <<"C", "o", "n", "t", "e", "n", "t", "-", "L", "e", "n", "g", "t", "h", ":", "SP", "1">> \o CRLF \o CRLF \o <<"a">>,
      <<"P", "O", "S", "T", "SP", "/", "SP", "H", "T", "T", "P", "/", "1", ".", "1">> \o CRLF \o <<"T", "r", "a", "n", "s", "f", "e", "r", "-", "E", "n", "c", "o", "d", "i", "n", "g", ":", "SP", "c", "h", "u", "n", "k", "e", "d">> \o CRLF \o CRLF
          \o <<"1">> \o CRLF \o <<"a">> \o CRLF \o <<"0">> \o CRLF \o CRLF,
      <<"P", "O", "S", "T", "SP", "/", "SP", "H", "T", "T", "P", "/", "1", ".", "1">> \o CRLF \o <<"T", "r", "a", "n", "s", "f", "e", "r", "-", "E", "n", "c", "o", "d", "i", "n", "g", ":", "SP", "c", "h", "u", "n", "k", "e", "d">> \o CRLF \o CRLF
          \o <<"z">> \o CRLF \o <<"a">> \o CRLF,
      <<"G", "E", "T", "SP", "/">> \o CRLF \o CRLF,
      <<"G", "E", "T", "SP", "/", "SP", "H", "T", "T", "P", "/", "1", ".", "1">> \o CRLF \o <<"C", "o", "n", "t", "e", "n", "t", "-", "L", "e", "n", "g", "t", "h", ":", "SP", "x">> \o CRLF \o CRLF,
      <<"G", "E", "T", "SP", "/", "SP", "H", "T", "T", "P", "/", "1", ".", "1">> \o CRLF \o <<"U", "p", "g", "r", "a", "d", "e", ":", "SP", "x">> \o CRLF \o CRLF \o <<"a", "b">> }

\* the responses the HTTP stream hands the server
\* the number of ResponseData events of the model
MaxSrvData == 2

SrvResponses ==
    { [version |-> <<"H", "T", "T", "P", "/", "1", ".", "1">>, status_code |-> 200, reason |-> <<"O", "K">>,
       headers |-> EmptyMap],
      [version |-> <<"H", "T", "T", "P", "/", "1", ".", "1">>, status_code |-> 101, reason |-> <<"S", "w", "i", "t", "c", "h", "i", "n", "g">>,
       headers |-> EmptyMap],
      [version |-> <<"H", "T", "T", "P", "/", "1", ".", "1">>, status_code |-> 200, reason |-> <<"O", "K">>,
       headers |-> Insert(EmptyMap, <<"t", "r", "a", "n", "s", "f", "e", "r", "-", "e", "n", "c", "o", "d", "i", "n", "g">>, <<"c", "h", "u", "n", "k", "e", "d">>)] }

\* the pieces of body the HTTP stream hands on: HTTP/2 DATA frames may be empty
SrvResponseData == {<<>>, <<"a">>}

IsClientCloseConnection(command) == command = ClientCloseConnection

\* the client connection is open until the server has closed it
ClientConnectionOpen == SelectSeq(h1s_commands, IsClientCloseConnection) = <<>>

\* one call of the server: its new state, the commands it returned, and
\* what the call did to the connection's life cycle
SrvCall(result, lines, call) ==
    /\ h1s' = result.client
    /\ h1s_commands' = h1s_commands \o result.commands
    /\ h1s_err' = result.err
    /\ h1s_heads' = IF IsSome(lines)
                    THEN Append(h1s_heads, [lines |-> Unwrap(lines),
                                            commands |-> result.commands,
                                            err |-> result.err])
                    ELSE h1s_heads
    /\ h1s_resets' = IF result.client.stream_id # h1s.stream_id
                     THEN Append(h1s_resets, result.client)
                     ELSE h1s_resets
    /\ h1s_pipes' = IF result.client.state = "Passthrough" /\ h1s.state # "Passthrough"
                    THEN Append(h1s_pipes, [buf |-> result.client.buf,
                                            commands |-> result.commands])
                    ELSE h1s_pipes
    /\ h1s_last' = [call |-> call, commands |-> result.commands]

\* the driver starts the layer
SrvStart ==
    /\ h1s.state = "Start"
    /\ SrvCall(Http1ServerHandleEvent(h1s, [type |-> "Start"]), NoneOpt, "Start")
    /\ UNCHANGED <<h1s_data, h1s_wire, h1s_pos, notH1sVars>>

\* the next k bytes the client sent arrive in one DataReceived event
SrvDataReceived(k) ==
    /\ h1s.state # "Start"
    /\ ClientConnectionOpen
    /\ k \in 1..(Len(h1s_wire) - h1s_pos)
    /\ LET data == Slice(h1s_wire, h1s_pos + 1, h1s_pos + k) IN
       SrvCall(Http1ServerHandleEvent(h1s, [type |-> "DataReceived", data |-> data]),
               IF h1s.state = "ReadHeaders" THEN MaybeExtractLines(h1s.buf \o data)
               ELSE NoneOpt,
               "DataReceived")
    /\ h1s_pos' = h1s_pos + k
    /\ UNCHANGED <<h1s_data, h1s_wire, notH1sVars>>

\* the HTTP stream answers the request once it has been handed all of it
\* (the server is in Wait): response headers, then the end of the message
SrvSendResponseHeaders(response) ==
    /\ h1s.state = "Wait"
    /\ h1s.response = NoneOpt
    /\ ClientConnectionOpen
    /\ SrvCall(ServerSendEvent(h1s, [type |-> "ResponseHeaders",
                                     stream_id |-> h1s.stream_id,
                                     response |-> response]),
               NoneOpt, "ResponseHeaders")
    /\ UNCHANGED <<h1s_data, h1s_wire, h1s_pos, notH1sVars>>

\* a piece of the body of a chunked response
SrvSendResponseData(data) ==
    /\ h1s.state = "Wait"
    /\ IsSome(h1s.response)
    /\ IsChunkedEncodingRequest(Unwrap(h1s.response))
    /\ ~h1s.response_done
    /\ h1s_data < MaxSrvData
    /\ ClientConnectionOpen
    /\ SrvCall(ServerSendEvent(h1s, [type |-> "ResponseData",
                                     stream_id |-> h1s.stream_id, data |-> data]),
               NoneOpt, "ResponseData")
    /\ h1s_data' = h1s_data + 1
    /\ UNCHANGED <<h1s_wire, h1s_pos, notH1sVars>>

SrvSendResponseEndOfMessage ==
    /\ h1s.state = "Wait"
    /\ IsSome(h1s.response)
    /\ ~h1s.response_done
    /\ ClientConnectionOpen
    /\ SrvCall(ServerSendEvent(h1s, [type |-> "ResponseEndOfMessage",
                                     stream_id |-> h1s.stream_id]),
               NoneOpt, "ResponseEndOfMessage")
    /\ UNCHANGED <<h1s_data, h1s_wire, h1s_pos, notH1sVars>>

\* the client connection closes
SrvConnectionClosed ==
    /\ h1s.state # "Start"
    /\ ClientConnectionOpen
    /\ SrvCall(Http1ServerHandleEvent(h1s, [type |-> "ConnectionClosed"]), NoneOpt,
               "ConnectionClosed")
    /\ UNCHANGED <<h1s_data, h1s_wire, h1s_pos, notH1sVars>>

InitH1sVars ==
    /\ h1s = NewHttp1Server
    /\ h1s_commands = <<>>
    /\ h1s_err = FALSE
    /\ h1s_heads = <<>>
    /\ h1s_resets = <<>>
    /\ h1s_pipes = <<>>
    /\ h1s_last = [call |-> "new", commands |-> <<>>]
    /\ h1s_data = 0
    /\ h1s_wire = <<>>
    /\ h1s_pos = 0

InitH1sWire ==
    /\ h1s = NewHttp1Server
    /\ h1s_commands = <<>>
    /\ h1s_err = FALSE
    /\ h1s_heads = <<>>
    /\ h1s_resets = <<>>
    /\ h1s_pipes = <<>>
    /\ h1s_last = [call |-> "new", commands |-> <<>>]
    /\ h1s_data = 0
    /\ h1s_wire \in SrvWires
    /\ h1s_pos = 0

NextH1Server ==
    \/ SrvStart
    \/ \E k \in 1..Len(h1s_wire) : SrvDataReceived(k)
    \/ \E response \in SrvResponses : SrvSendResponseHeaders(response)
    \/ \E data \in SrvResponseData : SrvSendResponseData(data)
    \/ SrvSendResponseEndOfMessage
    \/ SrvConnectionClosed

BsMethods == {<<"G", "E", "T">>, <<"H", "E", "A", "D">>, <<"C", "O", "N", "N", "E", "C", "T">>}

BsStatusCodes == {100, 101, 200, 201, 204, 304, 404}

BsVersions == {<<"H", "T", "T", "P", "/", "1", ".", "0">>, <<"H", "T", "T", "P", "/", "1", ".", "1">>}

\* no framing header, a Content-Length, Transfer-Encoding: chunked, or both
BsHeaders ==
    { EmptyMap,
      Insert(EmptyMap, <<"c", "o", "n", "t", "e", "n", "t", "-", "l", "e", "n", "g", "t", "h">>, <<"0">>),
      Insert(EmptyMap, <<"c", "o", "n", "t", "e", "n", "t", "-", "l", "e", "n", "g", "t", "h">>, <<"2">>),
      Insert(EmptyMap, <<"t", "r", "a", "n", "s", "f", "e", "r", "-", "e", "n", "c", "o", "d", "i", "n", "g">>, <<"c", "h", "u", "n", "k", "e", "d">>),
      Insert(Insert(EmptyMap, <<"c", "o", "n", "t", "e", "n", "t", "-", "l", "e", "n", "g", "t", "h">>, <<"2">>), <<"t", "r", "a", "n", "s", "f", "e", "r", "-", "e", "n", "c", "o", "d", "i", "n", "g">>, <<"c", "h", "u", "n", "k", "e", "d">>) }

BsCalculate ==
    /\ bs_size = "pending"
    /\ bs_size' = CalculateExpectedResponseBodySize(bs_request, bs_response)
    /\ UNCHANGED <<bs_request, bs_response, bs_request_size, notBsVars>>

\* the server asks for the body size of the request
BsCalculateRequest ==
    /\ bs_request_size = "pending"
    /\ bs_request_size' = CalculateExpectedBodySize(bs_request)
    /\ UNCHANGED <<bs_request, bs_response, bs_size, notBsVars>>

InitBsVars ==
    /\ bs_request = [method |-> <<"G", "E", "T">>, path |-> <<"/">>, version |-> <<"H", "T", "T", "P", "/", "1", ".", "1">>,
                     headers |-> EmptyMap]
    /\ bs_response = [version |-> <<"H", "T", "T", "P", "/", "1", ".", "1">>, status_code |-> 200, reason |-> <<"O", "K">>,
                      headers |-> EmptyMap]
    /\ bs_size = "pending"
    /\ bs_request_size = "pending"

InitBsInputs ==
    /\ bs_request \in { [method |-> method, path |-> <<"/">>, version |-> <<"H", "T", "T", "P", "/", "1", ".", "1">>,
                         headers |-> headers] :
                       method \in BsMethods, headers \in BsHeaders }
    /\ bs_response \in { [version |-> version, status_code |-> status_code,
                          reason |-> <<"O", "K">>, headers |-> headers] :
                         version \in BsVersions, status_code \in BsStatusCodes,
                         headers \in BsHeaders }
    /\ bs_size = "pending"
    /\ bs_request_size = "pending"

NextBodySize == BsCalculate \/ BsCalculateRequest

\* C23: the body of a response is none for a HEAD request, for a status
\* 1xx, 204 or 304 and for any 2xx answer to CONNECT; otherwise chunked
\* when Transfer-Encoding is chunked; otherwise the N bytes of
\* Content-Length: N; otherwise read-until-EOF for HTTP/1.0; otherwise none
C23_BodySizePrecedence ==
    bs_size # "pending" =>
        bs_size =
            IF \/ ToUppercase(bs_request.method) = <<"H", "E", "A", "D">>
               \/ bs_response.status_code \in 100..199 \cup {204, 304}
               \/ /\ ToUppercase(bs_request.method) = <<"C", "O", "N", "N", "E", "C", "T">>
                  /\ bs_response.status_code \in 200..299
            THEN Some(Sized(0))
            ELSE IF IsChunkedEncodingRequest(bs_response) THEN Some(Chunked)
            ELSE IF <<"c", "o", "n", "t", "e", "n", "t", "-", "l", "e", "n", "g", "t", "h">> \in DOMAIN bs_response.headers
            THEN Some(Sized(Unwrap(ParseU64(bs_response.headers[<<"c", "o", "n", "t", "e", "n", "t", "-", "l", "e", "n", "g", "t", "h">>]))))
            ELSE IF bs_response.version = <<"H", "T", "T", "P", "/", "1", ".", "0">> THEN Some(UntilEof)
            ELSE Some(Sized(0))

IsRequestHeaders(command) ==
    command.cmd = "ReceiveHttp" /\ command.event.type = "RequestHeaders"

\* a 400 response sent to the client, then the close of the client connection
IsBadRequestThenClose(cmds) ==
    /\ Len(cmds) = 2
    /\ cmds[1].cmd = "SendData" /\ cmds[1].connection = "client"
    /\ cmds[1].data.error_response.status_code = 400
    /\ cmds[2] = ClientCloseConnection

\* C24: every request head the server takes out of its buffer is either
\* handed on as RequestHeaders or, failing validation, answered with a
\* SendData carrying a 400 response followed by CloseConnection on the
\* client connection, and then no RequestHeaders is emitted for it
C24_BadHeadGets400AndClose ==
    \A i \in 1..Len(h1s_heads) :
        IF SelectSeq(h1s_heads[i].commands, IsRequestHeaders) # <<>>
        THEN Len(h1s_heads[i].commands) = 1
        ELSE IsBadRequestThenClose(h1s_heads[i].commands)

IsRequestProtocolError(command) ==
    command.cmd = "ReceiveHttp" /\ command.event.type = "RequestProtocolError"

C26_Http2OriginClosesUpstream ==
    PairCompleted /\ SentRequestHead.version = <<"H", "T", "T", "P", "/", "2", ".", "0">> =>
        /\ SelectSeq(h1_commands, IsCloseConnection) # <<>>
        /\ h1.state = "Done"

\* the tunnel has emitted the hook command of this name
Emitted(name) ==
    \E i \in 1..Len(tn_commands) : tn_commands[i] = Command(name, "tunnel")

\* the tunnel has been given this event of its own connection
Arrived(name) ==
    \E i \in 1..Len(tn_arrived) :
        tn_arrived[i].name = name /\ tn_arrived[i].connection = "tunnel"

\* C27: TlsEstablishedClient is emitted and the client TLS tunnel is Open
\* only after the client handshake has completed, so never on a connection
\* whose handshake has failed: TlsEstablishedClient and TlsFailedClient are
\* not both emitted, and no tunnel with a failed handshake is Open
C27_EstablishedOnlyAfterHandshake ==
    tunnel.kind = "ClientTlsLayer" =>
        /\ ~(Emitted("TlsEstablishedClientHook") /\ Emitted("TlsFailedClientHook"))
        /\ (tunnel.tunnel_state = "Open" => ~tn_failed)

\* C28: every TLS handshake failure emits the hook of its side: a client
\* handshake that failed has emitted TlsFailedClient, and a server handshake
\* that could not be set up, or whose connection closed before it
\* completed, has emitted TlsFailedServer
C28_FailureEmitsHook ==
    /\ (tunnel.kind = "ClientTlsLayer" /\ tn_failed) => Emitted("TlsFailedClientHook")
    /\ (/\ tunnel.kind = "ServerTlsLayer"
        /\ tn_arrived # <<>>
        /\ ~tunnel.wait_for_clienthello
        /\ ~tunnel.handshake_complete
        /\ (~tunnel.ssl_connection \/ Arrived("ConnectionClosed")))
           => Emitted("TlsFailedServerHook")

\* C29: the client TLS layer emits TlsClienthello for a ClientHello it has
\* parsed and acts only on the hook's decision: by the time it has gone on
\* (failed or established the handshake, or opened the tunnel) the hook has
\* been emitted, and no TlsStartClient comes without it
C29_ClienthelloHookDecides ==
    tunnel.kind = "ClientTlsLayer" =>
        /\ tunnel.client_hello_parsed => Emitted("TlsClienthelloHook")
        /\ Emitted("TlsStartClientHook") => Emitted("TlsClienthelloHook")

\* C30: a server TLS layer that does not wait for its child's
\* OpenConnection starts the handshake at Start: once Start has been
\* handled and OpenSSL has given it a connection, TlsStartServer has been
\* emitted, and the tunnel is past Inactive
C30_HandshakeStartsAtStart ==
    (/\ tunnel.kind = "ServerTlsLayer"
     /\ tn_arrived # <<>>
     /\ ~tunnel.wait_for_clienthello
     /\ tunnel.ssl_connection)
        => /\ Emitted("TlsStartServerHook")
           /\ tunnel.tunnel_state # "Inactive"

\* C39: the server and the client decide body framing with the same
\* precedence: for a request and a response that both carry
\* Transfer-Encoding: chunked and Content-Length, the server reads the
\* request body as chunked and the client reads the response body as chunked
C39_SameFramingPrecedence ==
    LET both(headers) == /\ <<"c", "o", "n", "t", "e", "n", "t", "-", "l", "e", "n", "g", "t", "h">> \in DOMAIN headers
                         /\ <<"t", "r", "a", "n", "s", "f", "e", "r", "-", "e", "n", "c", "o", "d", "i", "n", "g">> \in DOMAIN headers
    IN  /\ (bs_request_size # "pending" /\ both(bs_request.headers))
               => bs_request_size = Some(Chunked)
        /\ (/\ bs_size # "pending" /\ both(bs_response.headers)
            /\ bs_request.method = <<"G", "E", "T">> /\ bs_response.status_code \in {200, 201, 404})
               => bs_size = Some(Chunked)

\* the terminating zero-size chunk, sent to the client
IsLastChunk(command) == command = ClientSendData(<<"0">> \o CRLF \o CRLF)

\* C40: for a chunked response the terminating zero-size chunk is written
\* only at ResponseEndOfMessage, once, and never in answer to a
\* ResponseData event, whatever data it carries
C40_LastChunkOnlyAtEndOfMessage ==
    /\ h1s_last.call = "ResponseData" =>
           SelectSeq(h1s_last.commands, IsLastChunk) = <<>>
    /\ h1s_last.call = "ResponseEndOfMessage" =>
           Len(SelectSeq(h1s_last.commands, IsLastChunk)) <= 1

\* the child has been given the answer to its OpenConnection
ChildAnswers ==
    SelectSeq(tn_child_events,
              LAMBDA e : e.name = "OpenConnectionCompleted")

C32_ClosedAfterConnectionClosed ==
    (tn_arrived # <<>>
        /\ tn_arrived[Len(tn_arrived)].name = "ConnectionClosed"
        /\ tn_arrived[Len(tn_arrived)].connection = "tunnel")
    => tunnel.tunnel_state = "Closed"

\* C33: once kill_flow has stored an error on a flow, no interleaving of the
\* handlers that read a flow and write it back (update_flow, resume_flow,
\* set_flow_content, revert_flow) leaves that flow in the store without
\* its error.
C33_KillErrorIsNeverLost ==
    \A id \in killed : id \in DOMAIN flows => IsSome(flows[id].error)

\* ------------------------------------------------------------------------
\* proxy/layers/http.rs: HttpLayer, the table of HttpStream state machines
\* ------------------------------------------------------------------------

MaxHlEvents == 4

\* the stream ids the events carry
HlStreamIds == {1, 3}

\* HttpStream::new; the flow starts without request, response and error
NewHttpStream(stream_id) ==
    [stream_id |-> stream_id,
     flow |-> [request |-> NoneOpt, response |-> NoneOpt, live |-> FALSE,
               error |-> NoneOpt],
     client_state |-> "uninitialized",
     server_state |-> "uninitialized",
     request_body_buf |-> <<>>,
     response_body_buf |-> <<>>]

\* what a handler of the stream returns: the stream and its commands
StreamResult(stream, cmds) == [stream |-> stream, commands |-> cmds]

DropStream(stream_id) == [cmd |-> "DropStream", stream_id |-> stream_id]

\* HttpStream::validate_request
ValidateRequest(request) == request.scheme \in {"http", "https", ""}

\* HttpStream::handle_request_headers
HandleRequestHeaders(stream, event) ==
    LET s1 == [stream EXCEPT !.flow.request = Some(event.request),
                             !.flow.live = TRUE]
    IN  IF ~ValidateRequest(event.request)
        THEN StreamResult(s1,
                 << [cmd |-> "SendHttp", connection |-> "client",
                     event |-> [type |-> "ResponseProtocolError",
                                stream_id |-> stream.stream_id,
                                message |-> "Invalid request scheme",
                                code |-> "RequestValidationFailed"]] >>)
        ELSE IF event.request.method = "CONNECT"
        THEN \* handle_connect
             StreamResult([s1 EXCEPT !.client_state = "done"], <<>>)
        ELSE StreamResult(
                 [s1 EXCEPT !.client_state = IF event.end_stream THEN "done"
                                             ELSE "consume_request_body",
                            !.server_state = "wait_for_response_headers"],
                 <<>>)

\* HttpStream::handle_request_end
HandleRequestEnd(stream) ==
    StreamResult(
        [stream EXCEPT !.flow.request =
                           IF IsSome(@)
                           THEN Some([Unwrap(@) EXCEPT
                                        !.content = stream.request_body_buf])
                           ELSE @,
                       !.request_body_buf =
                           IF IsSome(stream.flow.request) THEN <<>> ELSE @,
                       !.client_state = "done"],
        <<>>)

\* HttpStream::handle_response_headers
HandleResponseHeaders(stream, event) ==
    StreamResult(
        [stream EXCEPT !.flow.response = Some(event.response),
                       !.server_state = IF event.end_stream THEN "done"
                                        ELSE "consume_response_body"],
        <<>>)

\* HttpStream::handle_response_end; a 101 goes to handle_protocol_upgrade
HandleResponseEnd(stream) ==
    LET s1 == [stream EXCEPT !.flow.response =
                                 IF IsSome(@)
                                 THEN Some([Unwrap(@) EXCEPT
                                              !.content = stream.response_body_buf])
                                 ELSE @,
                             !.response_body_buf =
                                 IF IsSome(stream.flow.response) THEN <<>> ELSE @,
                             !.server_state = "done",
                             !.flow.live = FALSE]
    IN  IF IsSome(s1.flow.response) /\ Unwrap(s1.flow.response).status_code = 101
        THEN StreamResult(s1, <<>>)
        ELSE StreamResult(s1, << DropStream(stream.stream_id) >>)

\* HttpStream::handle_protocol_error
HandleProtocolError(stream, msg) ==
    StreamResult([stream EXCEPT !.flow.live = FALSE],
                 << DropStream(stream.stream_id) >>)

\* HttpStream::handle_event
HttpStreamHandleEvent(stream, event) ==
    CASE event.type = "RequestHeaders" -> HandleRequestHeaders(stream, event)
      [] event.type = "RequestData" ->
             StreamResult([stream EXCEPT !.request_body_buf = @ \o event.data], <<>>)
      [] event.type = "RequestEndOfMessage" -> HandleRequestEnd(stream)
      [] event.type = "ResponseHeaders" -> HandleResponseHeaders(stream, event)
      [] event.type = "ResponseData" ->
             StreamResult([stream EXCEPT !.response_body_buf = @ \o event.data], <<>>)
      [] event.type = "ResponseEndOfMessage" -> HandleResponseEnd(stream)
      [] event.type \in {"RequestProtocolError", "ResponseProtocolError"} ->
             HandleProtocolError(stream, event.message)
      [] OTHER -> StreamResult(stream, <<>>)

\* HttpLayer::make_stream: the new entry goes under next_stream_id
MakeStream(streams, next_stream_id) ==
    [streams |-> [k \in DOMAIN streams \cup {next_stream_id} |->
                     IF k = next_stream_id THEN NewHttpStream(next_stream_id)
                     ELSE streams[k]],
     next_stream_id |-> next_stream_id + 2,
     stream_id |-> next_stream_id]

\* the requests and responses the events carry
HlRequests ==
    { [method |-> "GET", scheme |-> "http", content |-> <<>>],
      [method |-> "CONNECT", scheme |-> "http", content |-> <<>>],
      [method |-> "GET", scheme |-> "ftp", content |-> <<>>] }

HlResponses ==
    { [status_code |-> 200, content |-> <<>>],
      [status_code |-> 101, content |-> <<>>] }

\* the HTTP events a connection hands to the layer
HlEvents ==
    { RequestHeaders(id, request, FALSE) : id \in HlStreamIds, request \in HlRequests }
    \cup { RequestHeaders(id, [method |-> "GET", scheme |-> "http",
                               content |-> <<>>], TRUE) : id \in HlStreamIds }
    \cup { RequestData(id, <<"a">>) : id \in HlStreamIds }
    \cup { RequestEndOfMessage(id) : id \in HlStreamIds }
    \cup { RequestProtocolError(id, "reset") : id \in HlStreamIds }
    \cup { ResponseHeaders(id, response, FALSE) : id \in HlStreamIds,
                                                  response \in HlResponses }
    \cup { ResponseData(id, <<"a">>) : id \in HlStreamIds }
    \cup { ResponseEndOfMessage(id) : id \in HlStreamIds }
    \cup { ResponseProtocolError(id, "reset") : id \in HlStreamIds }

\* HttpLayer::route_event for an HTTP event
RouteEvent(event) ==
    /\ hl_count < MaxHlEvents
    /\ hl_count' = hl_count + 1
    /\ LET made == IF event.stream_id \in DOMAIN hl_streams
                   THEN [streams |-> hl_streams,
                         next_stream_id |-> hl_next_stream_id,
                         stream_id |-> 0]
                   ELSE MakeStream(hl_streams, hl_next_stream_id)
       IN  /\ hl_next_stream_id' = made.next_stream_id
           /\ IF event.stream_id \in DOMAIN made.streams
              THEN LET r == HttpStreamHandleEvent(made.streams[event.stream_id], event)
                   IN  /\ hl_streams' = [made.streams EXCEPT
                                            ![event.stream_id] = r.stream]
                       /\ hl_last' = [event |-> event,
                                      handled_by |-> Some(event.stream_id),
                                      made |-> made.stream_id,
                                      commands |-> r.commands]
              ELSE \* no entry under the event's id: the event is logged
                   \* as unhandled
                   /\ hl_streams' = made.streams
                   /\ hl_last' = [event |-> event, handled_by |-> NoneOpt,
                                  made |-> made.stream_id, commands |-> <<>>]
    /\ UNCHANGED notHlVars

\* HttpLayer::route_event for Start: nothing happens
RouteStart ==
    /\ hl_count < MaxHlEvents
    /\ hl_count' = hl_count + 1
    /\ hl_last' = [event |-> [type |-> "Start", stream_id |-> 0],
                   handled_by |-> NoneOpt, made |-> 0, commands |-> <<>>]
    /\ UNCHANGED <<hl_streams, hl_next_stream_id, notHlVars>>

\* HttpLayer::new
InitHlVars ==
    /\ hl_streams = [k \in {} |-> NewHttpStream(0)]
    /\ hl_next_stream_id = 1
    /\ hl_last = [event |-> [type |-> "none", stream_id |-> 0],
                  handled_by |-> NoneOpt, made |-> 0, commands |-> <<>>]
    /\ hl_count = 0

NextHttpLayer ==
    \/ \E event \in HlEvents : RouteEvent(event)
    \/ RouteStart

\* C37: on a RequestProtocolError or ResponseProtocolError the layer records
\* the error on the flow of the event's stream and removes the stream from
\* its table: right after such an event no entry is left under its id.
C37_ProtocolErrorRemovesStream ==
    hl_last.event.type \in {"RequestProtocolError", "ResponseProtocolError"}
    => hl_last.event.stream_id \notin DOMAIN hl_streams

\* C38: the table is keyed by the event's stream id: a RequestHeaders for an
\* id without entry creates the entry under exactly that id, and every event
\* for an id is delivered to the entry under that id.
C38_TableKeyedByEventStreamId ==
    /\ (hl_last.event.type = "RequestHeaders" /\ hl_last.made # 0)
           => /\ hl_last.made = hl_last.event.stream_id
              /\ hl_last.handled_by = Some(hl_last.event.stream_id)
    /\ hl_last.event.stream_id \in DOMAIN hl_streams
           => /\ hl_last.handled_by = Some(hl_last.event.stream_id)
              /\ hl_streams[hl_last.event.stream_id].stream_id
                     = hl_last.event.stream_id

\* ------------------------------------------------------------------------
\* proxy/layers/http.rs: Http2Connection and BufferedH2Connection
\* ------------------------------------------------------------------------

MaxH2Calls == 4

\* BufferedH2Connection::new: max_frame_size is 2^17
MaxFrameSize == 131072

H2StreamIds == {1, 3, 5}

H2CloseConnection == [cmd |-> "CloseConnection", connection |-> "h2"]

H2Log == [cmd |-> "Log", connection |-> "h2"]

\* what a handler returns: the streams, the commands, and whether to stop
H2Result(streams, cmds, stop) ==
    [streams |-> streams, commands |-> cmds, stop |-> stop]

\* Http2Connection::protocol_error_generator
ProtocolErrorGenerator(streams) ==
    H2Result(streams, << H2Log, H2CloseConnection >>, TRUE)

\* a HashMap after insert(key, value)
MapInsert(map, key, value) ==
    [k \in DOMAIN map \cup {key} |-> IF k = key THEN value ELSE map[k]]

\* a HashMap after remove(key)
MapRemove(map, key) == [k \in DOMAIN map \ {key} |-> map[k]]

\* Http2Connection::parse_h2_headers_from_vec: the pseudo headers go to a
\* map, and a name that is already in it is an error; NoneOpt is Err
RECURSIVE ParsePseudoHeaders(_, _)
ParsePseudoHeaders(headers, pseudo_headers) ==
    IF headers = <<>> THEN Some(pseudo_headers)
    ELSE LET name == headers[1][1]
             value == headers[1][2]
         IN  IF name[1] = ":"
             THEN IF name \in DOMAIN pseudo_headers
                  THEN NoneOpt
                  ELSE ParsePseudoHeaders(Tail(headers),
                                          MapInsert(pseudo_headers, name, value))
             ELSE ParsePseudoHeaders(Tail(headers), pseudo_headers)

\* the regular headers parse_h2_headers_from_vec puts into the HeaderMap
RegularHeaders(headers) == SelectSeq(headers, LAMBDA h : h[1][1] # ":")

\* Http2Connection::create_request_from_headers: the three required pseudo
\* headers are looked up with get, which leaves them in the map, and the
\* map is then required to be empty; NoneOpt is Err
CreateRequestFromHeaders(pseudo_headers, headers) ==
    IF <<":", "method">> \notin DOMAIN pseudo_headers THEN NoneOpt
    ELSE IF <<":", "scheme">> \notin DOMAIN pseudo_headers THEN NoneOpt
    ELSE IF <<":", "path">> \notin DOMAIN pseudo_headers THEN NoneOpt
    ELSE IF DOMAIN pseudo_headers # {} THEN NoneOpt
    ELSE Some([method |-> pseudo_headers[<<":", "method">>],
               scheme |-> pseudo_headers[<<":", "scheme">>],
               path |-> pseudo_headers[<<":", "path">>],
               authority |-> IF <<":", "authority">> \in DOMAIN pseudo_headers
                             THEN Some(pseudo_headers[<<":", "authority">>])
                             ELSE NoneOpt,
               version |-> "HTTP/2.0",
               headers |-> headers])

\* Http2Connection::handle_headers_received
HandleHeadersReceived(streams, stream_id, headers, end_stream) ==
    LET parsed == ParsePseudoHeaders(headers, [k \in {} |-> <<>>])
    IN  IF parsed = NoneOpt THEN ProtocolErrorGenerator(streams)
        ELSE LET request == CreateRequestFromHeaders(Unwrap(parsed),
                                                     RegularHeaders(headers))
             IN  IF request = NoneOpt THEN ProtocolErrorGenerator(streams)
                 ELSE H2Result(MapInsert(streams, stream_id, "HeadersReceived"),
                               << ReceiveHttp(RequestHeaders(stream_id,
                                      Unwrap(request), end_stream)) >>,
                               FALSE)

\* Http2Connection::handle_data_received
HandleH2DataReceived(streams, stream_id, data, end_stream) ==
    IF stream_id \notin DOMAIN streams THEN ProtocolErrorGenerator(streams)
    ELSE IF streams[stream_id] = "ExpectingHeaders"
    THEN ProtocolErrorGenerator(streams)
    ELSE IF end_stream /\ data = <<>> THEN H2Result(streams, <<>>, FALSE)
    ELSE H2Result(streams, << ReceiveHttp(RequestData(stream_id, data)) >>, FALSE)

\* Http2Connection::handle_stream_reset
HandleStreamReset(streams, stream_id, error_code) ==
    IF stream_id \notin DOMAIN streams THEN H2Result(streams, <<>>, FALSE)
    ELSE H2Result(MapRemove(streams, stream_id),
                  << ReceiveHttp([RequestProtocolError(stream_id, "stream reset by client")
                                  EXCEPT !.code = CASE error_code = 8 -> "Cancel"
                                                    [] error_code = 13 -> "Http11Required"
                                                    [] OTHER -> "GenericClientError"]) >>,
                  FALSE)

\* the orders in which a HashMap may hand out the keys in S
Orderings(S) ==
    { order \in [1..Cardinality(S) -> S] :
        \A i, j \in 1..Cardinality(S) : i # j => order[i] # order[j] }

\* the streams handle_go_away collects: those with id >= last_stream_id
StreamsToClose(streams, last_stream_id) ==
    { id \in DOMAIN streams : id >= last_stream_id }

\* Http2Connection::handle_go_away, with the collected keys in this order
HandleGoAwayClosesFirst(streams, last_stream_id, order) ==
    H2Result([k \in { id \in DOMAIN streams : id < last_stream_id } |-> streams[k]],
             << H2CloseConnection >>
                 \o [i \in 1..Len(order) |->
                        ReceiveHttp(RequestProtocolError(order[i], "HTTP/2 connection closed"))],
             FALSE)
HandleGoAway(streams, last_stream_id, order) ==
    H2Result([k \in { id \in DOMAIN streams : id < last_stream_id } |-> streams[k]],
             [i \in 1..Len(order) |->
                 ReceiveHttp(RequestProtocolError(order[i], "HTTP/2 connection closed"))]
                 \o << H2CloseConnection >>,
             FALSE)

\* the chunks data.chunks(max_size) cuts a payload of this length into, each
\* with its offset in the payload
RECURSIVE Chunks(_, _)
Chunks(len, offset) ==
    IF len - offset <= MaxFrameSize
    THEN << [offset |-> offset, len |-> len - offset] >>
    ELSE << [offset |-> offset, len |-> MaxFrameSize] >>
             \o Chunks(len, offset + MaxFrameSize)

\* BufferedH2Connection::send_data for a payload at most max_frame_size
\* long: the frame is queued, whether the stream has a queue or not
BufferFrame(buffers, stream_id, frame) ==
    IF stream_id \in DOMAIN buffers
    THEN [buffers EXCEPT ![stream_id] = Append(@, frame)]
    ELSE MapInsert(buffers, stream_id, << frame >>)

\* BufferedH2Connection::send_data; data is [tag, len], the payload's
\* identity and its length
RECURSIVE BufferChunks(_, _, _, _, _)
BufferChunks(buffers, stream_id, data, chunks, end_stream) ==
    IF chunks = <<>> THEN buffers
    ELSE LET chunk == chunks[1]
             is_last_chunk == chunk.offset = data.len - chunk.len
         IN  BufferChunks(
                 BufferFrame(buffers, stream_id,
                             [data |-> [tag |-> data.tag, len |-> chunk.len],
                              end_stream |-> end_stream /\ is_last_chunk]),
                 stream_id, data, Tail(chunks), end_stream)

BufferedSendData(buffers, stream_id, data, end_stream) ==
    IF data.len > MaxFrameSize
    THEN BufferChunks(buffers, stream_id, data, Chunks(data.len, 0), end_stream)
    ELSE BufferFrame(buffers, stream_id, [data |-> data, end_stream |-> end_stream])

\* the HEADERS blocks a peer sends
H2HeaderBlocks ==
    { << <<<<":", "m", "e", "t", "h", "o", "d">>, <<"G", "E", "T">>>>, <<<<":", "s", "c", "h", "e", "m", "e">>, <<"h", "t", "t", "p">>>>, <<<<":", "p", "a", "t", "h">>, <<"/">>>> >>,
      << <<<<":", "m", "e", "t", "h", "o", "d">>, <<"G", "E", "T">>>>, <<<<":", "s", "c", "h", "e", "m", "e">>, <<"h", "t", "t", "p">>>>, <<<<":", "p", "a", "t", "h">>, <<"/">>>>,
         <<<<":", "a", "u", "t", "h", "o", "r", "i", "t", "y">>, <<"h">>>> >>,
      << <<<<":", "m", "e", "t", "h", "o", "d">>, <<"G", "E", "T">>>>, <<<<":", "s", "c", "h", "e", "m", "e">>, <<"h", "t", "t", "p">>>>, <<<<":", "p", "a", "t", "h">>, <<"/">>>>,
         <<<<"a", "c", "c", "e", "p", "t">>, <<"*">>>> >>,
      << <<<<":", "m", "e", "t", "h", "o", "d">>, <<"G", "E", "T">>>>, <<<<":", "m", "e", "t", "h", "o", "d">>, <<"P", "U", "T">>>>, <<<<":", "s", "c", "h", "e", "m", "e">>, <<"h", "t", "t", "p">>>>,
         <<<<":", "p", "a", "t", "h">>, <<"/">>>> >>,
      << <<<<":", "m", "e", "t", "h", "o", "d">>, <<"G", "E", "T">>>>, <<<<":", "s", "c", "h", "e", "m", "e">>, <<"h", "t", "t", "p">>>> >>,
      << <<<<"a", "c", "c", "e", "p", "t">>, <<"*">>>> >> }

\* the payloads the layer above sends: short ones and one that is split
H2Payloads ==
    { [tag |-> "a", len |-> 1], [tag |-> "b", len |-> 2],
      [tag |-> "c", len |-> MaxFrameSize + 1] }

\* the frames queued for a stream
Queued(buffers, stream_id) ==
    IF stream_id \in DOMAIN buffers THEN buffers[stream_id] ELSE <<>>

H2Call(call, arg, stream_id, r) ==
    /\ h2_count < MaxH2Calls
    /\ h2_count' = h2_count + 1
    /\ h2_streams' = r.streams
    /\ h2_last' = [call |-> call, arg |-> arg, stream_id |-> stream_id,
                   before |-> h2_streams,
                   queued |-> Queued(h2_stream_buffers, stream_id),
                   commands |-> r.commands, stop |-> r.stop]

\* handle_h2_event(HeadersReceived)
H2HeadersReceived(stream_id, headers, end_stream) ==
    /\ H2Call("HeadersReceived", headers, stream_id,
              HandleHeadersReceived(h2_streams, stream_id, headers, end_stream))
    /\ UNCHANGED <<h2_stream_buffers, notH2Vars>>

\* handle_h2_event(DataReceived)
H2DataReceived(stream_id, data, end_stream) ==
    /\ H2Call("DataReceived", <<>>, stream_id,
              HandleH2DataReceived(h2_streams, stream_id, data, end_stream))
    /\ UNCHANGED <<h2_stream_buffers, notH2Vars>>

\* handle_h2_event(StreamReset)
H2StreamReset(stream_id, error_code) ==
    /\ H2Call("StreamReset", <<>>, stream_id,
              HandleStreamReset(h2_streams, stream_id, error_code))
    /\ UNCHANGED <<h2_stream_buffers, notH2Vars>>

\* handle_h2_event(GoAway); stream_id holds last_stream_id
H2GoAway(last_stream_id) ==
    /\ \E order \in Orderings(StreamsToClose(h2_streams, last_stream_id)) :
           H2Call("GoAway", <<>>, last_stream_id,
                  HandleGoAway(h2_streams, last_stream_id, order))
    /\ UNCHANGED <<h2_stream_buffers, notH2Vars>>

\* handle_h2_event(WindowUpdate): handle_window_update returns no command
\* and does not touch the buffered connection
H2WindowUpdate(stream_id) ==
    /\ H2Call("WindowUpdate", <<>>, stream_id, H2Result(h2_streams, <<>>, FALSE))
    /\ UNCHANGED <<h2_stream_buffers, notH2Vars>>

\* BufferedH2Connection::stream_window_updated: nothing is drained
H2StreamWindowUpdated(stream_id) ==
    /\ H2Call("stream_window_updated", <<>>, stream_id,
              H2Result(h2_streams, <<>>, FALSE))
    /\ UNCHANGED <<h2_stream_buffers, notH2Vars>>

\* BufferedH2Connection::send_data
H2SendData(stream_id, data, end_stream) ==
    /\ H2Call("send_data", <<>>, stream_id, H2Result(h2_streams, <<>>, FALSE))
    /\ h2_stream_buffers' =
           BufferedSendData(h2_stream_buffers, stream_id, data, end_stream)
    /\ UNCHANGED notH2Vars

\* Http2Connection::data_to_send and BufferedH2Connection::data_to_send:
\* both return None, so no frame is handed out
H2DataToSend ==
    /\ H2Call("data_to_send", <<>>, 0, H2Result(h2_streams, <<>>, FALSE))
    /\ UNCHANGED <<h2_stream_buffers, notH2Vars>>

\* Http2Client::handle_request_headers: the request goes out on one of our
\* stream ids, which is tracked as ExpectingHeaders
H2ClientRequestHeaders(ours) ==
    /\ H2Call("RequestHeaders", <<>>, ours,
              H2Result(MapInsert(h2_streams, ours, "ExpectingHeaders"),
                       << [cmd |-> "SendData", connection |-> "h2", data |-> <<>>] >>,
                       FALSE))
    /\ UNCHANGED <<h2_stream_buffers, notH2Vars>>

\* Http2Client::handle_response_received: the response is taken to be for
\* stream 1
H2ResponseReceived ==
    /\ H2Call("ResponseReceived", <<>>, 1,
              IF 1 \in DOMAIN h2_streams /\ h2_streams[1] = "ExpectingHeaders"
              THEN H2Result(MapInsert(h2_streams, 1, "HeadersReceived"),
                            << ReceiveHttp([type |-> "ResponseHeaders",
                                            stream_id |-> 1]) >>, FALSE)
              ELSE H2Result(h2_streams, << H2Log, H2CloseConnection >>, FALSE))
    /\ UNCHANGED <<h2_stream_buffers, notH2Vars>>

\* Http2Connection::new with BufferedH2Connection::new
InitH2Vars ==
    /\ h2_streams = [k \in {} |-> "HeadersReceived"]
    /\ h2_stream_buffers = [k \in {} |-> <<>>]
    /\ h2_last = [call |-> "none", arg |-> <<>>, stream_id |-> 0,
                  before |-> [k \in {} |-> "HeadersReceived"],
                  queued |-> <<>>, commands |-> <<>>, stop |-> FALSE]
    /\ h2_count = 0

NextH2 ==
    \/ \E stream_id \in H2StreamIds, headers \in H2HeaderBlocks :
           H2HeadersReceived(stream_id, headers, FALSE)
    \/ \E stream_id \in H2StreamIds, data \in {<<>>, <<"a">>}, end_stream \in BOOLEAN :
           H2DataReceived(stream_id, data, end_stream)
    \/ \E stream_id \in H2StreamIds, error_code \in {0, 8} :
           H2StreamReset(stream_id, error_code)
    \/ \E last_stream_id \in {0} \cup H2StreamIds : H2GoAway(last_stream_id)
    \/ \E stream_id \in H2StreamIds : H2WindowUpdate(stream_id)
    \/ \E stream_id \in H2StreamIds : H2StreamWindowUpdated(stream_id)
    \/ \E stream_id \in H2StreamIds, data \in H2Payloads :
           H2SendData(stream_id, data, TRUE)
    \/ H2DataToSend
    \/ \E ours \in H2StreamIds : H2ClientRequestHeaders(ours)
    \/ H2ResponseReceived

\* the names of the pseudo headers of a block, in the block's order
PseudoNames(headers) ==
    LET pseudo == SelectSeq(headers, LAMBDA h : h[1][1] = ":")
    IN  [i \in 1..Len(pseudo) |-> pseudo[i][1]]

\* how often a name is among the pseudo headers of a block
Times(name, headers) ==
    Cardinality({ i \in 1..Len(PseudoNames(headers)) : PseudoNames(headers)[i] = name })

\* C34: a HEADERS block whose pseudo headers are :method, :scheme and :path,
\* with or without :authority, each once, is accepted: RequestHeaders for
\* the stream with those values is produced and the stream is
\* HeadersReceived; a block with a pseudo header twice is a protocol error.
C34_WellFormedHeadersAccepted ==
    h2_last.call = "HeadersReceived"
    => LET headers == h2_last.arg
           id == h2_last.stream_id
       IN  /\ (/\ Times(<<":", "m", "e", "t", "h", "o", "d">>, headers) = 1
               /\ Times(<<":", "s", "c", "h", "e", "m", "e">>, headers) = 1
               /\ Times(<<":", "p", "a", "t", "h">>, headers) = 1
               /\ Times(<<":", "a", "u", "t", "h", "o", "r", "i", "t", "y">>, headers) <= 1
               /\ Len(PseudoNames(headers)) <= 4)
              => /\ Len(h2_last.commands) = 1
                 /\ h2_last.commands[1].cmd = "ReceiveHttp"
                 /\ h2_last.commands[1].event.type = "RequestHeaders"
                 /\ h2_last.commands[1].event.stream_id = id
                 /\ h2_last.commands[1].event.request.method = <<"G", "E", "T">>
                 /\ h2_last.commands[1].event.request.scheme = <<"h", "t", "t", "p">>
                 /\ h2_last.commands[1].event.request.path = <<"/">>
                 /\ id \in DOMAIN h2_streams
                 /\ h2_streams[id] = "HeadersReceived"
           /\ (\E i, j \in 1..Len(PseudoNames(headers)) :
                   i # j /\ PseudoNames(headers)[i] = PseudoNames(headers)[j])
              => h2_last.commands = << H2Log, H2CloseConnection >>

\* the streams that are sent a RequestProtocolError by these commands, one
\* entry per error
ErrorsFor(cmds, id) ==
    Cardinality({ i \in 1..Len(cmds) :
                    /\ cmds[i].cmd = "ReceiveHttp"
                    /\ cmds[i].event.type = "RequestProtocolError"
                    /\ cmds[i].event.stream_id = id })

\* C35: on GOAWAY with last_stream_id L every tracked stream with id >= L
\* is sent exactly one RequestProtocolError, the streams with id < L none,
\* and the close of the connection comes after all those errors.
C35_GoAwayErrorsThenClose ==
    h2_last.call = "GoAway"
    => LET cmds == h2_last.commands
           L == h2_last.stream_id
       IN  /\ \A id \in DOMAIN h2_last.before :
                  ErrorsFor(cmds, id) = IF id >= L THEN 1 ELSE 0
           /\ cmds # <<>>
           /\ cmds[Len(cmds)] = H2CloseConnection
           /\ \A i \in 1..(Len(cmds) - 1) : cmds[i].cmd = "ReceiveHttp"

C35_Witness ==
    /\ h2_last.call = "GoAway"
    /\ h2_last.stream_id = 3
    /\ DOMAIN h2_last.before = {1, 3, 5}
    /\ Len(h2_last.commands) = 3
    /\ h2_last.commands[1].event.stream_id = 5

\* C36: DATA the buffered connection has queued for a stream is not held
\* for ever: on a WINDOW_UPDATE for the stream the queued frames are sent,
\* in the order in which they were queued.
C36_QueuedDataSentOnWindowUpdate ==
    h2_last.call \in {"WindowUpdate", "stream_window_updated"}
    => LET sends == SelectSeq(h2_last.commands, LAMBDA c : c.cmd = "SendData")
       IN  /\ Len(sends) = Len(h2_last.queued)
           /\ \A i \in 1..Len(sends) : sends[i].data = h2_last.queued[i].data
           /\ Queued(h2_stream_buffers, h2_last.stream_id) = <<>>

\* ------------------------------------------------------------------------
\* Specifications
\* ------------------------------------------------------------------------

InitLayer ==
    /\ InitLayerVars /\ InitFlowVars /\ InitContentVars /\ InitSseVars
    /\ InitCertVars /\ InitH1Vars /\ InitRtVars /\ InitNextLayerVars
    /\ InitTunnelVars /\ InitCaVars /\ InitDriverVars /\ InitH1sVars
    /\ InitBsVars /\ InitHlVars /\ InitH2Vars

SpecLayer == InitLayer /\ [][NextLayer]_vars

Init ==
    /\ InitLayerVars /\ InitFlowVars /\ InitContentVars /\ InitSseVars
    /\ InitCertVars /\ InitH1Vars /\ InitRtVars /\ InitNextLayerVars
    /\ InitTunnelVars /\ InitCaVars /\ InitDriverVars /\ InitH1sVars
    /\ InitBsVars /\ InitHlVars /\ InitH2Vars

Spec == Init /\ [][NextFlow]_vars

InitSetContent ==
    /\ InitLayerVars /\ InitFlowVars /\ InitContent /\ InitSseVars
    /\ InitCertVars /\ InitH1Vars /\ InitRtVars /\ InitNextLayerVars
    /\ InitTunnelVars /\ InitCaVars /\ InitDriverVars /\ InitH1sVars
    /\ InitBsVars /\ InitHlVars /\ InitH2Vars

SpecContent == InitSetContent /\ [][NextContent]_vars

InitSse ==
    /\ InitLayerVars /\ InitFlowVars /\ InitContentVars /\ InitSseStream
    /\ InitCertVars /\ InitH1Vars /\ InitRtVars /\ InitNextLayerVars
    /\ InitTunnelVars /\ InitCaVars /\ InitDriverVars /\ InitH1sVars
    /\ InitBsVars /\ InitHlVars /\ InitH2Vars

SpecSse == InitSse /\ [][NextSse]_vars

InitCerts ==
    /\ InitLayerVars /\ InitFlowVars /\ InitContentVars /\ InitSseVars
    /\ InitCertVars /\ InitH1Vars /\ InitRtVars /\ InitNextLayerVars
    /\ InitTunnelVars /\ InitCaVars /\ InitDriverVars /\ InitH1sVars
    /\ InitBsVars /\ InitHlVars /\ InitH2Vars

SpecCerts == InitCerts /\ [][NextCerts]_vars

InitH1 ==
    /\ InitLayerVars /\ InitFlowVars /\ InitContentVars /\ InitSseVars
    /\ InitCertVars /\ InitH1Response /\ InitRtVars /\ InitNextLayerVars
    /\ InitTunnelVars /\ InitCaVars /\ InitDriverVars /\ InitH1sVars
    /\ InitBsVars /\ InitHlVars /\ InitH2Vars

SpecH1 == InitH1 /\ [][NextH1]_vars

InitRoundTrip ==
    /\ InitLayerVars /\ InitFlowVars /\ InitContentVars /\ InitSseVars
    /\ InitCertVars /\ InitH1Vars /\ InitRtHead /\ InitNextLayerVars
    /\ InitTunnelVars /\ InitCaVars /\ InitDriverVars /\ InitH1sVars
    /\ InitBsVars /\ InitHlVars /\ InitH2Vars

SpecRoundTrip == InitRoundTrip /\ [][NextRoundTrip]_vars

InitNextLayer ==
    /\ InitLayerVars /\ InitFlowVars /\ InitContentVars /\ InitSseVars
    /\ InitCertVars /\ InitH1Vars /\ InitRtVars /\ InitNextLayerVars
    /\ InitTunnelVars /\ InitCaVars /\ InitDriverVars /\ InitH1sVars
    /\ InitBsVars /\ InitHlVars /\ InitH2Vars

SpecNextLayer == InitNextLayer /\ [][NextNextLayer]_vars

InitTunnel ==
    /\ InitLayerVars /\ InitFlowVars /\ InitContentVars /\ InitSseVars
    /\ InitCertVars /\ InitH1Vars /\ InitRtVars /\ InitNextLayerVars
    /\ InitTunnelLayer /\ InitCaVars /\ InitDriverVars /\ InitH1sVars
    /\ InitBsVars /\ InitHlVars /\ InitH2Vars

SpecTunnel == InitTunnel /\ [][NextTunnel]_vars

InitCa ==
    /\ InitLayerVars /\ InitFlowVars /\ InitContentVars /\ InitSseVars
    /\ InitCertVars /\ InitH1Vars /\ InitRtVars /\ InitNextLayerVars
    /\ InitTunnelVars /\ InitCaDirs /\ InitDriverVars /\ InitH1sVars
    /\ InitBsVars /\ InitHlVars /\ InitH2Vars

SpecCa == InitCa /\ [][NextCa]_vars

InitDriver ==
    /\ InitLayerVars /\ InitFlowVars /\ InitContentVars /\ InitSseVars
    /\ InitCertVars /\ InitH1Vars /\ InitRtVars /\ InitNextLayerVars
    /\ InitTunnelVars /\ InitCaVars /\ InitDriverVars /\ InitH1sVars
    /\ InitBsVars /\ InitHlVars /\ InitH2Vars

SpecDriver == InitDriver /\ [][NextDriver]_vars

InitH1Server ==
    /\ InitLayerVars /\ InitFlowVars /\ InitContentVars /\ InitSseVars
    /\ InitCertVars /\ InitH1Vars /\ InitRtVars /\ InitNextLayerVars
    /\ InitTunnelVars /\ InitCaVars /\ InitDriverVars /\ InitH1sWire
    /\ InitBsVars /\ InitHlVars /\ InitH2Vars

SpecH1Server == InitH1Server /\ [][NextH1Server]_vars

InitBodySize ==
    /\ InitLayerVars /\ InitFlowVars /\ InitContentVars /\ InitSseVars
    /\ InitCertVars /\ InitH1Vars /\ InitRtVars /\ InitNextLayerVars
    /\ InitTunnelVars /\ InitCaVars /\ InitDriverVars /\ InitH1sVars
    /\ InitBsInputs /\ InitHlVars /\ InitH2Vars

SpecBodySize == InitBodySize /\ [][NextBodySize]_vars

InitHttpLayer ==
    /\ InitLayerVars /\ InitFlowVars /\ InitContentVars /\ InitSseVars
    /\ InitCertVars /\ InitH1Vars /\ InitRtVars /\ InitNextLayerVars
    /\ InitTunnelVars /\ InitCaVars /\ InitDriverVars /\ InitH1sVars
    /\ InitBsVars /\ InitHlVars /\ InitH2Vars

SpecHttpLayer == InitHttpLayer /\ [][NextHttpLayer]_vars

InitH2 ==
    /\ InitLayerVars /\ InitFlowVars /\ InitContentVars /\ InitSseVars
    /\ InitCertVars /\ InitH1Vars /\ InitRtVars /\ InitNextLayerVars
    /\ InitTunnelVars /\ InitCaVars /\ InitDriverVars /\ InitH1sVars
    /\ InitBsVars /\ InitHlVars /\ InitH2Vars

SpecH2 == InitH2 /\ [][NextH2]_vars

====
